---- MODULE Spec2Model ----
(***************************************************************************)
(* The virtual GICv2 distributor of libsel4vm (arch/arm/vgic): the         *)
(* distributor shadow registers (vdist.h), the virtual IRQ handler tables  *)
(* and the per-vCPU list-register shadow and overflow ring (virq.h).       *)
(*                                                                         *)
(* A 32-bit register word is represented by the set of the positions of    *)
(* its set bits (a subset of 0..31): w | x is union, w & x intersection,   *)
(* w & ~x set difference, 1U << b the singleton {b}.  Val(w) is the number *)
(* the word stands for.  A struct virq_handle pointer is the index of the  *)
(* object in the heap "handles"; NULL is 0.                                *)
(***************************************************************************)
EXTENDS Integers, Sequences, FiniteSets, TLC

(* ------------------------------------------------------------------ *)
(* Bounds of the model                                                *)
(* ------------------------------------------------------------------ *)

\* log2 of the ring size: MAX_IRQ_QUEUE_LEN is 2^QueueBits in the model
QueueBits == 3
\* length of the global SPI handler table (MAX_VIRQS) in the model
TableLen == 5
\* virq_handle objects the environment creates at most
MaxHandlers == 3
\* words modelled of each global (SPI) register array
NumWords == 3
\* operations (faults, injections, registrations, maintenance) per run
MaxOps == 4
\* operations per run of the narrow single-vCPU environment
MaxOpsDeep == 18
\* operations per run of the list register overflow scenario
MaxOpsOverflow == 13
\* registrations per run when register_irq is driven alone
MaxAdds == 7
\* calls per run when enqueue and dequeue are driven directly
MaxCalls == 10
\* register accesses per run of the register environment
MaxRegOps == 3
\* guest and VMM operations of the full-ring scenario
MaxOpsFull == 22

(* ------------------------------------------------------------------ *)
(* Program constants                                                  *)
(* ------------------------------------------------------------------ *)

\* the build option that sizes the per-vCPU arrays; two vCPUs are modelled
CONFIG_MAX_NUM_NODES == 2
NUM_SGI_VIRQS == 16
NUM_PPI_VIRQS == 16
GIC_SPI_IRQ_MIN == NUM_SGI_VIRQS + NUM_PPI_VIRQS
NUM_LIST_REGS == 4
MAX_IRQ_QUEUE_LEN == 2 ^ QueueBits
MAX_VIRQS == TableLen
NULL == 0

Vcpus == 0 .. (CONFIG_MAX_NUM_NODES - 1)
FullMask == 0 .. 31

(* ------------------------------------------------------------------ *)
(* Words                                                              *)
(* ------------------------------------------------------------------ *)

RECURSIVE Val(_)
Val(w) == IF w = {} THEN 0
          ELSE LET b == CHOOSE x \in w : TRUE IN 2 ^ b + Val(w \ {b})

\* (data & (((1 << (hi-lo+1)) - 1) << lo)) >> lo
Field(w, lo, hi) == Val({b - lo : b \in (w \cap (lo .. hi))})

\* count trailing zeros of a non-zero word
CTZ(w) == CHOOSE b \in w : \A c \in w : b <= c

RECURSIVE BitAnd(_, _)
BitAnd(a, b) == IF a = 0 \/ b = 0 THEN 0
                ELSE (a % 2) * (b % 2) + 2 * BitAnd(a \div 2, b \div 2)

IRQ_IDX(irq) == irq \div 32
IRQ_BIT(irq) == {irq % 32}
GIC_DIST_REGN(offset, reg) == (offset - reg) \div 4
IRQ_QUEUE_NEXT(i) == BitAnd(i + 1, MAX_IRQ_QUEUE_LEN - 1)

\* fault_emulate(fault, o): (o & ~mask) | (data & mask)
fault_emulate(data, mask, o) == (o \ mask) \cup (data \cap mask)

(* ------------------------------------------------------------------ *)
(* The distributor's register map (byte offsets in the 4 KiB window)  *)
(* ------------------------------------------------------------------ *)

GIC_DIST_CTLR == 0
GIC_DIST_TYPER == 4
GIC_DIST_IIDR == 8
GIC_DIST_IGROUPR0 == 128
GIC_DIST_IGROUPR1 == 132
GIC_DIST_IGROUPRN == 252
GIC_DIST_ISENABLER0 == 256
GIC_DIST_ISENABLER1 == 260
GIC_DIST_ISENABLERN == 380
GIC_DIST_ICENABLER0 == 384
GIC_DIST_ICENABLER1 == 388
GIC_DIST_ICENABLERN == 508
GIC_DIST_ISPENDR0 == 512
GIC_DIST_ISPENDR1 == 516
GIC_DIST_ISPENDRN == 636
GIC_DIST_ICPENDR0 == 640
GIC_DIST_ICPENDR1 == 644
GIC_DIST_ICPENDRN == 764
GIC_DIST_ISACTIVER0 == 768
GIC_DIST_ISACTIVER1 == 772
GIC_DIST_ISACTIVERN == 892
GIC_DIST_ICACTIVER0 == 896
GIC_DIST_ICACTIVER1 == 900
GIC_DIST_ICACTIVERN == 1020
GIC_DIST_IPRIORITYR0 == 1024
GIC_DIST_IPRIORITYR7 == 1052
GIC_DIST_IPRIORITYR8 == 1056
GIC_DIST_IPRIORITYRN == 2040
GIC_DIST_ITARGETSR0 == 2048
GIC_DIST_ITARGETSR7 == 2076
GIC_DIST_ITARGETSR8 == 2080
GIC_DIST_ITARGETSRN == 3064
GIC_DIST_ICFGR0 == 3072
GIC_DIST_ICFGRN == 3324
GIC_DIST_SGIR == 3840
GIC_DIST_CPENDSGIR0 == 3856
GIC_DIST_CPENDSGIRN == 3868
GIC_DIST_SPENDSGIR0 == 3872
GIC_DIST_SPENDSGIRN == 3884

\* CTLR value that enables the distributor
GIC_ENABLED == 1
\* SGIR fields: TargetListFilter [25:24], CPUTargetList [23:16], INTID [3:0]
GIC_DIST_SGI_TARGET_LIST_FILTER_SHIFT == 24
GIC_DIST_SGI_CPU_TARGET_LIST_SHIFT == 16
GIC_DIST_SGI_TARGET_LIST_SPEC == 0
GIC_DIST_SGI_TARGET_LIST_OTHERS == 1
GIC_DIST_SGI_TARGET_SELF == 2

\* case RANGE32(a, b): a ... b + (sizeof(uint32_t) - 1)
RANGE32(o, a, b) == a <= o /\ o <= b + 3

\* the switch of handle_vgic_dist_write_fault
WriteCase(o) ==
    CASE RANGE32(o, GIC_DIST_CTLR, GIC_DIST_CTLR) -> "CTLR"
      [] RANGE32(o, GIC_DIST_TYPER, GIC_DIST_TYPER) -> "TYPER"
      [] RANGE32(o, GIC_DIST_IIDR, GIC_DIST_IIDR) -> "IIDR"
      [] RANGE32(o, 12, 28) -> "RES_00C"
      [] RANGE32(o, 32, 60) -> "IMPL_020"
      [] RANGE32(o, 64, 124) -> "RES_040"
      [] RANGE32(o, GIC_DIST_IGROUPR0, GIC_DIST_IGROUPR0) -> "IGROUPR0"
      [] RANGE32(o, GIC_DIST_IGROUPR1, GIC_DIST_IGROUPRN) -> "IGROUPRN"
      [] RANGE32(o, GIC_DIST_ISENABLER0, GIC_DIST_ISENABLERN) -> "ISENABLER"
      [] RANGE32(o, GIC_DIST_ICENABLER0, GIC_DIST_ICENABLERN) -> "ICENABLER"
      [] RANGE32(o, GIC_DIST_ISPENDR0, GIC_DIST_ISPENDRN) -> "ISPENDR"
      [] RANGE32(o, GIC_DIST_ICPENDR0, GIC_DIST_ICPENDRN) -> "ICPENDR"
      [] RANGE32(o, GIC_DIST_ISACTIVER0, GIC_DIST_ISACTIVER0) -> "ISACTIVER0"
      [] RANGE32(o, GIC_DIST_ISACTIVER1, GIC_DIST_ISACTIVERN) -> "ISACTIVERN"
      [] RANGE32(o, GIC_DIST_ICACTIVER0, GIC_DIST_ICACTIVER0) -> "ICACTIVER0"
      [] RANGE32(o, GIC_DIST_ICACTIVER1, GIC_DIST_ICACTIVERN) -> "ICACTIVERN"
      [] RANGE32(o, GIC_DIST_IPRIORITYR0, GIC_DIST_IPRIORITYRN) -> "IPRIORITYR"
      [] RANGE32(o, 2044, 2044) -> "RES_7FC"
      [] RANGE32(o, GIC_DIST_ITARGETSR0, GIC_DIST_ITARGETSRN) -> "ITARGETSR"
      [] RANGE32(o, 3068, 3068) -> "RES_BFC"
      [] RANGE32(o, GIC_DIST_ICFGR0, GIC_DIST_ICFGRN) -> "ICFGR"
      [] RANGE32(o, 3328, 3556) -> "SPI_D00"
      [] RANGE32(o, 3560, 3836) -> "RES_DE8"
      [] RANGE32(o, GIC_DIST_SGIR, GIC_DIST_SGIR) -> "SGIR"
      [] RANGE32(o, 3844, 3852) -> "IMPL_F04"
      [] RANGE32(o, GIC_DIST_CPENDSGIR0, GIC_DIST_SPENDSGIRN) -> "SGI_PENDING"
      [] RANGE32(o, 3888, 4028) -> "RES_F30"
      [] RANGE32(o, 4032, 4091) -> "PERIPH_ID"
      [] OTHER -> "default"

\* the write cases whose body is only "break", and the default case
IgnoredWriteCases ==
    {"TYPER", "IIDR", "RES_00C", "IMPL_020", "RES_040", "IPRIORITYR", "RES_7FC",
     "ITARGETSR", "RES_BFC", "ICFGR", "SPI_D00", "RES_DE8", "IMPL_F04",
     "RES_F30", "PERIPH_ID", "default"}

(* ------------------------------------------------------------------ *)
(* State                                                              *)
(* ------------------------------------------------------------------ *)

VARIABLES
    vgic,       \* struct vgic: lr_shadow, irq_queue, sgi_ppi_irq, virqs
    gic_dist,   \* struct gic_dist_map: the distributor's shadow registers
    handles,    \* the struct virq_handle objects created so far
    obs,        \* what the last operation was, returned and called
    fifo,       \* history: per vCPU, the handles enqueued and not yet dequeued
    nops        \* operations so far

vars == <<vgic, gic_dist, handles, obs, fifo, nops>>

WordIdx == 0 .. (NumWords - 1)
Banked(w) == [v \in Vcpus |-> w]
Global(w) == [k \in WordIdx |-> w]

\* arr[i] of a global register array; words the model does not hold read 0
At(arr, i) == IF i \in DOMAIN arr THEN arr[i] ELSE {}

EmptyQueue == [irqs |-> [i \in 0 .. (MAX_IRQ_QUEUE_LEN - 1) |-> NULL],
               head |-> 0, tail |-> 0]

InitVgic ==
    [lr_shadow |-> [v \in Vcpus |-> [i \in 0 .. (NUM_LIST_REGS - 1) |-> NULL]],
     irq_queue |-> [v \in Vcpus |-> EmptyQueue],
     sgi_ppi_irq |-> [v \in Vcpus |-> [q \in 0 .. (GIC_SPI_IRQ_MIN - 1) |-> NULL]],
     virqs |-> [i \in 0 .. (MAX_VIRQS - 1) |-> NULL]]

InitDist ==
    [enable |-> {}, ic_type |-> {}, dist_ident |-> {},
     irq_group0 |-> Banked({}), irq_group |-> Global({}),
     enable_set0 |-> Banked({}), enable_set |-> Global({}),
     enable_clr0 |-> Banked({}), enable_clr |-> Global({}),
     pending_set0 |-> Banked({}), pending_set |-> Global({}),
     pending_clr0 |-> Banked({}), pending_clr |-> Global({}),
     active0 |-> Banked({}), active |-> Global({}),
     active_clr0 |-> Banked({}), active_clr |-> Global({}),
     priority0 |-> Banked(Global({})), priority |-> Global({}),
     targets0 |-> Banked(Global({})), targets |-> Global({}),
     config |-> Global({}), spi |-> Global({}), sgi_control |-> {},
     sgi_pending_clr |-> Banked(Global({})),
     sgi_pending_set |-> Banked(Global({})),
     periph_id |-> Global({})]

NoObs == [op |-> "init", vcpu |-> 0, offset |-> 0, irq |-> 0, data |-> {},
          mask |-> {}, ret |-> 0, loads |-> <<>>, acks |-> <<>>,
          injects |-> <<>>, qlog |-> <<>>, rdata |-> {}]

Init ==
    /\ vgic = InitVgic
    /\ gic_dist = InitDist
    /\ handles = <<>>
    /\ obs = NoObs
    /\ fifo = [v \in Vcpus |-> <<>>]
    /\ nops = 0

(* ------------------------------------------------------------------ *)
(* The machine the C functions work on: the program state and the     *)
(* calls made to the external collaborators during one operation      *)
(* ------------------------------------------------------------------ *)

Mach(g, d, hs) ==
    [vgic |-> g, dist |-> d, handles |-> hs, ret |-> 0,
     loads |-> <<>>, acks |-> <<>>, injects |-> <<>>, qlog |-> <<>>]

Cur == Mach(vgic, gic_dist, handles)

Return(M, r) == [M EXCEPT !.ret = r]

(* ------------------------------------------------------------------ *)
(* virq.h: the handler tables                                         *)
(* ------------------------------------------------------------------ *)

\* irq->ack(vcpu, irq->virq, irq->token)
virq_ack(M, v, h) ==
    [M EXCEPT !.acks = Append(@, [vcpu |-> v, virq |-> M.handles[h].virq, handle |-> h])]

virq_get_sgi_ppi(M, v, virq) == M.vgic.sgi_ppi_irq[v][virq]

virq_find_spi_irq_data(M, virq) ==
    LET hit == {i \in 0 .. (MAX_VIRQS - 1) :
                   /\ M.vgic.virqs[i] # NULL
                   /\ M.handles[M.vgic.virqs[i]].virq = virq}
    IN  IF hit = {} THEN NULL
        ELSE M.vgic.virqs[CHOOSE i \in hit : \A j \in hit : i <= j]

virq_find_irq_data(M, v, virq) ==
    IF virq < GIC_SPI_IRQ_MIN THEN virq_get_sgi_ppi(M, v, virq)
    ELSE virq_find_spi_irq_data(M, virq)

\* virq_spi_add filling the table from its last slot
virq_spi_add_last(M, h) ==
    LET free == {i \in 0 .. (MAX_VIRQS - 1) : M.vgic.virqs[i] = NULL}
    IN  IF free = {} THEN Return(M, -1)
        ELSE LET i == CHOOSE x \in free : \A y \in free : x >= y
             IN  Return([M EXCEPT !.vgic.virqs[i] = h], 0)

virq_spi_add(M, h) ==
    LET free == {i \in 0 .. (MAX_VIRQS - 1) : M.vgic.virqs[i] = NULL}
    IN  IF free = {} THEN Return(M, -1)
        ELSE LET i == CHOOSE x \in free : \A y \in free : x <= y
             IN  Return([M EXCEPT !.vgic.virqs[i] = h], 0)

virq_sgi_ppi_add(M, v, h) ==
    IF M.vgic.sgi_ppi_irq[v][M.handles[h].virq] # NULL THEN Return(M, -1)
    ELSE Return([M EXCEPT !.vgic.sgi_ppi_irq[v][M.handles[h].virq] = h], 0)

virq_add(M, v, h) ==
    IF M.handles[h].virq < GIC_SPI_IRQ_MIN THEN virq_sgi_ppi_add(M, v, h)
    ELSE virq_spi_add(M, h)

\* virq_init on a fresh object
virq_init(M, irq) == [M EXCEPT !.handles = Append(@, [virq |-> irq])]

(* ------------------------------------------------------------------ *)
(* virq.h: the list-register shadow and the overflow ring             *)
(* ------------------------------------------------------------------ *)

vgic_shadow_irq(M, i, h, v) == [M EXCEPT !.vgic.lr_shadow[v][i] = h]

QueueFull(q) == IRQ_QUEUE_NEXT(q.tail) = q.head

\* a call of vgic_irq_enqueue or vgic_irq_dequeue and what it returned
QCall(M, op, v, h, r) ==
    [M EXCEPT !.qlog = Append(@, [op |-> op, vcpu |-> v, handle |-> h, ret |-> r])]

\* vgic_irq_enqueue without the test for a full ring
vgic_irq_enqueue_unchecked(M, v, h) ==
    LET q == M.vgic.irq_queue[v]
    IN  Return(QCall([M EXCEPT !.vgic.irq_queue[v].irqs[q.tail] = h,
                               !.vgic.irq_queue[v].tail = IRQ_QUEUE_NEXT(q.tail)],
                     "enqueue", v, h, 0), 0)

vgic_irq_enqueue(M, v, h) ==
    LET q == M.vgic.irq_queue[v]
    IN  IF QueueFull(q)
        THEN Return(QCall(M, "enqueue", v, h, -1), -1)
        ELSE Return(QCall([M EXCEPT !.vgic.irq_queue[v].irqs[q.tail] = h,
                                    !.vgic.irq_queue[v].tail = IRQ_QUEUE_NEXT(q.tail)],
                          "enqueue", v, h, 0), 0)

\* the newest entry of the ring instead of the oldest
DequeuedHandle_newest(M, v) ==
    LET q == M.vgic.irq_queue[v]
    IN  IF q.head # q.tail
        THEN q.irqs[(q.tail + MAX_IRQ_QUEUE_LEN - 1) % MAX_IRQ_QUEUE_LEN]
        ELSE NULL

\* the handle vgic_irq_dequeue returns
DequeuedHandle(M, v) ==
    LET q == M.vgic.irq_queue[v]
    IN  IF q.head # q.tail THEN q.irqs[q.head] ELSE NULL

\* the machine vgic_irq_dequeue leaves
vgic_irq_dequeue(M, v) ==
    LET q == M.vgic.irq_queue[v]
    IN  IF q.head # q.tail
        THEN QCall([M EXCEPT !.vgic.irq_queue[v].head = IRQ_QUEUE_NEXT(q.head)],
                   "dequeue", v, q.irqs[q.head], q.irqs[q.head])
        ELSE QCall(M, "dequeue", v, NULL, NULL)

\* vgic_find_empty_list_reg scanning from the last list register
vgic_find_empty_list_reg_last(M, v) ==
    LET free == {i \in 0 .. (NUM_LIST_REGS - 1) : M.vgic.lr_shadow[v][i] = NULL}
    IN  IF free = {} THEN -1 ELSE CHOOSE i \in free : \A j \in free : i >= j

vgic_find_empty_list_reg(M, v) ==
    LET free == {i \in 0 .. (NUM_LIST_REGS - 1) : M.vgic.lr_shadow[v][i] = NULL}
    IN  IF free = {} THEN -1 ELSE CHOOSE i \in free : \A j \in free : i <= j

\* the hypercall that programs list register idx, then records it
vgic_vcpu_load_list_reg(M, v, idx, h) ==
    Return(vgic_shadow_irq([M EXCEPT !.loads = Append(@, [vcpu |-> v, idx |-> idx, handle |-> h])],
                           idx, h, v), 0)

(* ------------------------------------------------------------------ *)
(* vdist.h: the bit accessors                                         *)
(* ------------------------------------------------------------------ *)

set_sgi_ppi_pending(d, irq, set, v) ==
    IF set
    THEN [d EXCEPT !.pending_set0[v] = @ \cup IRQ_BIT(irq),
                   !.pending_clr0[v] = @ \cup IRQ_BIT(irq)]
    ELSE [d EXCEPT !.pending_set0[v] = @ \ IRQ_BIT(irq),
                   !.pending_clr0[v] = @ \ IRQ_BIT(irq)]

set_spi_pending(d, irq, set) ==
    IF set
    THEN [d EXCEPT !.pending_set[IRQ_IDX(irq)] = @ \cup IRQ_BIT(irq),
                   !.pending_clr[IRQ_IDX(irq)] = @ \cup IRQ_BIT(irq)]
    ELSE [d EXCEPT !.pending_set[IRQ_IDX(irq)] = @ \ IRQ_BIT(irq),
                   !.pending_clr[IRQ_IDX(irq)] = @ \ IRQ_BIT(irq)]

set_pending(d, irq, set, v) ==
    IF irq < GIC_SPI_IRQ_MIN THEN set_sgi_ppi_pending(d, irq, set, v)
    ELSE set_spi_pending(d, irq, set)

is_sgi_ppi_pending(d, irq, v) == (d.pending_set0[v] \cap IRQ_BIT(irq)) # {}
is_spi_pending(d, irq) == (d.pending_set[IRQ_IDX(irq)] \cap IRQ_BIT(irq)) # {}

is_pending(d, irq, v) ==
    IF irq < GIC_SPI_IRQ_MIN THEN is_sgi_ppi_pending(d, irq, v)
    ELSE is_spi_pending(d, irq)

\* a variant that keeps one enable word for all vCPUs
set_sgi_ppi_enable_unbanked(d, irq, set, v) ==
    IF set
    THEN [d EXCEPT !.enable_set0 = [w \in Vcpus |-> @[w] \cup IRQ_BIT(irq)],
                   !.enable_clr0 = [w \in Vcpus |-> @[w] \cup IRQ_BIT(irq)]]
    ELSE [d EXCEPT !.enable_set0 = [w \in Vcpus |-> @[w] \ IRQ_BIT(irq)],
                   !.enable_clr0 = [w \in Vcpus |-> @[w] \ IRQ_BIT(irq)]]

set_sgi_ppi_enable(d, irq, set, v) ==
    IF set
    THEN [d EXCEPT !.enable_set0[v] = @ \cup IRQ_BIT(irq),
                   !.enable_clr0[v] = @ \cup IRQ_BIT(irq)]
    ELSE [d EXCEPT !.enable_set0[v] = @ \ IRQ_BIT(irq),
                   !.enable_clr0[v] = @ \ IRQ_BIT(irq)]

set_spi_enable(d, irq, set) ==
    IF set
    THEN [d EXCEPT !.enable_set[IRQ_IDX(irq)] = @ \cup IRQ_BIT(irq),
                   !.enable_clr[IRQ_IDX(irq)] = @ \cup IRQ_BIT(irq)]
    ELSE [d EXCEPT !.enable_set[IRQ_IDX(irq)] = @ \ IRQ_BIT(irq),
                   !.enable_clr[IRQ_IDX(irq)] = @ \ IRQ_BIT(irq)]

set_enable(d, irq, set, v) ==
    IF irq < GIC_SPI_IRQ_MIN THEN set_sgi_ppi_enable(d, irq, set, v)
    ELSE set_spi_enable(d, irq, set)

is_sgi_ppi_enabled(d, irq, v) == (d.enable_set0[v] \cap IRQ_BIT(irq)) # {}
is_spi_enabled(d, irq) == (d.enable_set[IRQ_IDX(irq)] \cap IRQ_BIT(irq)) # {}

is_enabled(d, irq, v) ==
    IF irq < GIC_SPI_IRQ_MIN THEN is_sgi_ppi_enabled(d, irq, v)
    ELSE is_spi_enabled(d, irq)

is_sgi_ppi_active(d, irq, v) == (d.active0[v] \cap IRQ_BIT(irq)) # {}
is_spi_active(d, irq) == (d.active[IRQ_IDX(irq)] \cap IRQ_BIT(irq)) # {}

is_active(d, irq, v) ==
    IF irq < GIC_SPI_IRQ_MIN THEN is_sgi_ppi_active(d, irq, v)
    ELSE is_spi_active(d, irq)

\* gic_dist_enable, gic_dist_disable, gic_dist_is_enabled
gic_dist_enable(d) == [d EXCEPT !.enable = {0}]
gic_dist_disable(d) == [d EXCEPT !.enable = {}]
gic_dist_is_enabled(d) == d.enable # {}

vgic_dist_enable(M) == Return([M EXCEPT !.dist = gic_dist_enable(@)], 0)
vgic_dist_disable(M) == Return([M EXCEPT !.dist = gic_dist_disable(@)], 0)

(* ------------------------------------------------------------------ *)
(* vdist.h: the per-IRQ operations                                    *)
(* ------------------------------------------------------------------ *)

\* vgic_dist_enable_irq acking whatever the pending bit says
vgic_dist_enable_irq_ack_pending(M, v, irq) ==
    LET virq_data == virq_find_irq_data(M, v, irq)
        M1 == [M EXCEPT !.dist = set_enable(@, irq, TRUE, v)]
    IN  IF virq_data # NULL
        THEN Return(virq_ack(M1, v, virq_data), 0)
        ELSE Return(M1, 0)

vgic_dist_enable_irq(M, v, irq) ==
    LET virq_data == virq_find_irq_data(M, v, irq)
        M1 == [M EXCEPT !.dist = set_enable(@, irq, TRUE, v)]
    IN  IF virq_data # NULL
        THEN IF ~is_pending(M1.dist, M1.handles[virq_data].virq, v)
             THEN Return(virq_ack(M1, v, virq_data), 0)
             ELSE Return(M1, 0)
        ELSE Return(M1, 0)

\* vgic_dist_disable_irq without the test irq >= NUM_SGI_VIRQS
vgic_dist_disable_irq_any(M, v, irq) ==
    Return([M EXCEPT !.dist = set_enable(@, irq, FALSE, v)], 0)

vgic_dist_disable_irq(M, v, irq) ==
    IF irq >= NUM_SGI_VIRQS
    THEN Return([M EXCEPT !.dist = set_enable(@, irq, FALSE, v)], 0)
    ELSE Return(M, 0)

\* the test of vgic_dist_set_pending_irq without !gic_dist_is_enabled(gic_dist)
NotDeliverable_ignoring_ctlr(M, v, irq) ==
    \/ virq_find_irq_data(M, v, irq) = NULL
    \/ ~is_enabled(M.dist, irq, v)

\* the test that makes vgic_dist_set_pending_irq return -1 at once
NotDeliverable(M, v, irq) ==
    \/ virq_find_irq_data(M, v, irq) = NULL
    \/ ~gic_dist_is_enabled(M.dist)
    \/ ~is_enabled(M.dist, irq, v)

\* vgic_dist_set_pending_irq from the enqueue on
\* the same steps with the ring used only when no list register is free
EnqueueAndLoad_direct(M, v, virq_data) ==
    LET idx == vgic_find_empty_list_reg(M, v)
    IN  IF idx >= 0 THEN vgic_vcpu_load_list_reg(M, v, idx, virq_data)
        ELSE LET M2 == vgic_irq_enqueue(M, v, virq_data)
             IN  IF M2.ret # 0 THEN Return(M2, -1) ELSE Return(M2, 0)

EnqueueAndLoad(M, v, virq_data) ==
    LET M2 == vgic_irq_enqueue(M, v, virq_data)
    IN  IF M2.ret # 0 THEN Return(M2, -1)
        ELSE LET idx == vgic_find_empty_list_reg(M2, v)
             IN  IF idx < 0 THEN Return(M2, 0)
                 ELSE vgic_vcpu_load_list_reg(vgic_irq_dequeue(M2, v), v, idx,
                                              DequeuedHandle(M2, v))

\* vgic_dist_set_pending_irq without the early return for a pending IRQ
vgic_dist_set_pending_irq_again(M, v, irq) ==
    IF NotDeliverable(M, v, irq) THEN Return(M, -1)
    ELSE LET virq_data == virq_find_irq_data(M, v, irq)
         IN  EnqueueAndLoad(
                 [M EXCEPT !.dist = set_pending(@, M.handles[virq_data].virq, TRUE, v)],
                 v, virq_data)

vgic_dist_set_pending_irq(M, v, irq) ==
    IF NotDeliverable(M, v, irq) THEN Return(M, -1)
    ELSE LET virq_data == virq_find_irq_data(M, v, irq)
         IN  IF is_pending(M.dist, M.handles[virq_data].virq, v) THEN Return(M, 0)
             ELSE EnqueueAndLoad(
                      [M EXCEPT !.dist = set_pending(@, M.handles[virq_data].virq, TRUE, v)],
                      v, virq_data)

vgic_dist_clr_pending_irq(M, v, irq) ==
    Return([M EXCEPT !.dist = set_pending(@, irq, FALSE, v)], 0)

\* the public entry point of the IRQ sources and of the SGI dispatch
vm_inject_irq(M, v, irq) ==
    LET M1 == vgic_dist_set_pending_irq(M, v, irq)
    IN  [M1 EXCEPT !.injects = Append(@, [vcpu |-> v, virq |-> irq])]

(* ------------------------------------------------------------------ *)
(* vdist.h: handle_vgic_dist_write_fault                              *)
(* ------------------------------------------------------------------ *)

\* while (data) { irq = CTZ(data); data &= ~(1U << irq); irq += (offset - base) * 8; ... }
RECURSIVE EnableLoop(_, _, _, _)
EnableLoop(M, v, data, offset) ==
    IF data = {} THEN M
    ELSE LET irq == CTZ(data)
         IN  EnableLoop(vgic_dist_enable_irq(M, v, irq + (offset - GIC_DIST_ISENABLER0) * 8),
                        v, data \ {irq}, offset)

RECURSIVE DisableLoop(_, _, _, _)
DisableLoop(M, v, data, offset) ==
    IF data = {} THEN M
    ELSE LET irq == CTZ(data)
         IN  DisableLoop(vgic_dist_disable_irq(M, v, irq + (offset - GIC_DIST_ICENABLER0) * 8),
                         v, data \ {irq}, offset)

RECURSIVE SetPendingLoop(_, _, _, _)
SetPendingLoop(M, v, data, offset) ==
    IF data = {} THEN M
    ELSE LET irq == CTZ(data)
         IN  SetPendingLoop(vgic_dist_set_pending_irq(M, v, irq + (offset - GIC_DIST_ISPENDR0) * 8),
                            v, data \ {irq}, offset)

RECURSIVE ClrPendingLoop(_, _, _, _)
ClrPendingLoop(M, v, data, offset) ==
    IF data = {} THEN M
    ELSE LET irq == CTZ(data)
         IN  ClrPendingLoop(vgic_dist_clr_pending_irq(M, v, irq + (offset - GIC_DIST_ICPENDR0) * 8),
                            v, data \ {irq}, offset)

\* mode = (data & FILTER_MASK) >> FILTER_SHIFT
SgiMode(data) ==
    Field(data, GIC_DIST_SGI_TARGET_LIST_FILTER_SHIFT,
          GIC_DIST_SGI_TARGET_LIST_FILTER_SHIFT + 1)

\* the default case of switch (mode) is not taken
SgiModeKnown(data) ==
    SgiMode(data) \in {GIC_DIST_SGI_TARGET_LIST_SPEC, GIC_DIST_SGI_TARGET_LIST_OTHERS,
                       GIC_DIST_SGI_TARGET_SELF}

\* target_list of a filter that treats "all but the requester" as "all"
SgiTargetList_all(v, data) ==
    CASE SgiMode(data) = GIC_DIST_SGI_TARGET_LIST_SPEC ->
             {b - GIC_DIST_SGI_CPU_TARGET_LIST_SHIFT :
                 b \in data \cap (GIC_DIST_SGI_CPU_TARGET_LIST_SHIFT ..
                                  GIC_DIST_SGI_CPU_TARGET_LIST_SHIFT + 7)}
      [] SgiMode(data) = GIC_DIST_SGI_TARGET_LIST_OTHERS ->
             0 .. (CONFIG_MAX_NUM_NODES - 1)
      [] SgiMode(data) = GIC_DIST_SGI_TARGET_SELF -> {v}
      [] OTHER -> {}

\* target_list, as the set of the vCPU indices whose bit is set
SgiTargetList(v, data) ==
    CASE SgiMode(data) = GIC_DIST_SGI_TARGET_LIST_SPEC ->
             {b - GIC_DIST_SGI_CPU_TARGET_LIST_SHIFT :
                 b \in data \cap (GIC_DIST_SGI_CPU_TARGET_LIST_SHIFT ..
                                  GIC_DIST_SGI_CPU_TARGET_LIST_SHIFT + 7)}
      [] SgiMode(data) = GIC_DIST_SGI_TARGET_LIST_OTHERS ->
             (0 .. (CONFIG_MAX_NUM_NODES - 1)) \ {v}
      [] SgiMode(data) = GIC_DIST_SGI_TARGET_SELF -> {v}
      [] OTHER -> {}

\* for (i = 0; i < num_vcpus; i++) { if (!(target_list & (1 << i)) || !online) continue; inject }
RECURSIVE SgiLoop(_, _, _, _, _)
SgiLoop(M, i, target_list, virq, online) ==
    IF i >= CONFIG_MAX_NUM_NODES THEN M
    ELSE IF i \notin target_list \/ ~online[i]
         THEN SgiLoop(M, i + 1, target_list, virq, online)
         ELSE SgiLoop(vm_inject_irq(M, i, virq), i + 1, target_list, virq, online)

SgirWrite(M, v, data, online) ==
    IF ~SgiModeKnown(data) THEN M
    ELSE SgiLoop(M, 0, SgiTargetList(v, data), Field(data, 0, 3), online)

\* the body of the switch: the machine when control reaches ignore_fault
WriteSwitch(M, v, offset, data, mask, online) ==
    LET c == WriteCase(offset)
        d == M.dist
    IN  CASE c = "CTLR" ->
               IF Val(data) = GIC_ENABLED THEN vgic_dist_enable(M)
               ELSE IF Val(data) = 0 THEN vgic_dist_disable(M)
               ELSE M
          [] c = "IGROUPR0" ->
               [M EXCEPT !.dist.irq_group0[v] = fault_emulate(data, mask, d.irq_group0[v])]
          [] c = "IGROUPRN" ->
               LET r == GIC_DIST_REGN(offset, GIC_DIST_IGROUPR1)
               IN  [M EXCEPT !.dist.irq_group[r] = fault_emulate(data, mask, d.irq_group[r])]
          [] c = "ISENABLER" -> EnableLoop(M, v, data \cap mask, offset)
          [] c = "ICENABLER" -> DisableLoop(M, v, data \cap mask, offset)
          [] c = "ISPENDR" -> SetPendingLoop(M, v, data \cap mask, offset)
          [] c = "ICPENDR" -> ClrPendingLoop(M, v, data \cap mask, offset)
          [] c = "ISACTIVER0" ->
               [M EXCEPT !.dist.active0[v] = fault_emulate(data, mask, d.active0[v])]
          [] c = "ISACTIVERN" ->
               LET r == GIC_DIST_REGN(offset, GIC_DIST_ISACTIVER1)
               IN  [M EXCEPT !.dist.active[r] = fault_emulate(data, mask, d.active[r])]
          [] c = "ICACTIVER0" ->
               [M EXCEPT !.dist.active_clr0[v] = fault_emulate(data, mask, d.active0[v])]
          [] c = "ICACTIVERN" ->
               LET r == GIC_DIST_REGN(offset, GIC_DIST_ICACTIVER1)
               IN  [M EXCEPT !.dist.active_clr[r] = fault_emulate(data, mask, d.active_clr[r])]
          [] c = "SGIR" -> SgirWrite(M, v, data, online)
          [] OTHER -> M

\* err = ignore_fault(fault); if (err) return FAULT_ERROR; return FAULT_HANDLED;
FaultResult(err) == IF err THEN "FAULT_ERROR" ELSE "FAULT_HANDLED"

\* handle_vgic_dist_write_fault with an ICFGR case that emulates the write
handle_vgic_dist_write_fault_icfgr(M, v, offset, data, mask, online, err, asserts) ==
    IF WriteCase(offset) = "SGI_PENDING" /\ asserts THEN Return(M, "ABORT")
    ELSE IF WriteCase(offset) = "ICFGR"
         THEN Return([M EXCEPT !.dist.config[0] = fault_emulate(data, mask, @)],
                     FaultResult(err))
         ELSE Return(WriteSwitch(M, v, offset, data, mask, online), FaultResult(err))

\* asserts: whether the build keeps assert(); the SGI pending registers abort then
handle_vgic_dist_write_fault(M, v, offset, data, mask, online, err, asserts) ==
    IF WriteCase(offset) = "SGI_PENDING" /\ asserts THEN Return(M, "ABORT")
    ELSE Return(WriteSwitch(M, v, offset, data, mask, online), FaultResult(err))

(* ------------------------------------------------------------------ *)
(* vdist.h: handle_vgic_dist_read_fault                               *)
(* ------------------------------------------------------------------ *)

\* the switch of handle_vgic_dist_read_fault
ReadCase(o) ==
    CASE RANGE32(o, GIC_DIST_CTLR, GIC_DIST_CTLR) -> "CTLR"
      [] RANGE32(o, GIC_DIST_TYPER, GIC_DIST_TYPER) -> "TYPER"
      [] RANGE32(o, GIC_DIST_IIDR, GIC_DIST_IIDR) -> "IIDR"
      [] RANGE32(o, 12, 28) -> "RES_00C"
      [] RANGE32(o, 32, 60) -> "IMPL_020"
      [] RANGE32(o, 64, 124) -> "RES_040"
      [] RANGE32(o, GIC_DIST_IGROUPR0, GIC_DIST_IGROUPR0) -> "IGROUPR0"
      [] RANGE32(o, GIC_DIST_IGROUPR1, GIC_DIST_IGROUPRN) -> "IGROUPRN"
      [] RANGE32(o, GIC_DIST_ISENABLER0, GIC_DIST_ISENABLER0) -> "ISENABLER0"
      [] RANGE32(o, GIC_DIST_ISENABLER1, GIC_DIST_ISENABLERN) -> "ISENABLERN"
      [] RANGE32(o, GIC_DIST_ICENABLER0, GIC_DIST_ICENABLER0) -> "ICENABLER0"
      [] RANGE32(o, GIC_DIST_ICENABLER1, GIC_DIST_ICENABLERN) -> "ICENABLERN"
      [] RANGE32(o, GIC_DIST_ISPENDR0, GIC_DIST_ISPENDR0) -> "ISPENDR0"
      [] RANGE32(o, GIC_DIST_ISPENDR1, GIC_DIST_ISPENDRN) -> "ISPENDRN"
      [] RANGE32(o, GIC_DIST_ICPENDR0, GIC_DIST_ICPENDR0) -> "ICPENDR0"
      [] RANGE32(o, GIC_DIST_ICPENDR1, GIC_DIST_ICPENDRN) -> "ICPENDRN"
      [] RANGE32(o, GIC_DIST_ISACTIVER0, GIC_DIST_ISACTIVER0) -> "ISACTIVER0"
      [] RANGE32(o, GIC_DIST_ISACTIVER1, GIC_DIST_ISACTIVERN) -> "ISACTIVERN"
      [] RANGE32(o, GIC_DIST_ICACTIVER0, GIC_DIST_ICACTIVER0) -> "ICACTIVER0"
      [] RANGE32(o, GIC_DIST_ICACTIVER1, GIC_DIST_ICACTIVERN) -> "ICACTIVERN"
      [] RANGE32(o, GIC_DIST_IPRIORITYR0, GIC_DIST_IPRIORITYR7) -> "IPRIORITYR0"
      [] RANGE32(o, GIC_DIST_IPRIORITYR8, GIC_DIST_IPRIORITYRN) -> "IPRIORITYRN"
      [] RANGE32(o, 2044, 2044) -> "RES_7FC"
      [] RANGE32(o, GIC_DIST_ITARGETSR0, GIC_DIST_ITARGETSR7) -> "ITARGETSR0"
      [] RANGE32(o, GIC_DIST_ITARGETSR8, GIC_DIST_ITARGETSRN) -> "ITARGETSRN"
      [] RANGE32(o, 3068, 3068) -> "RES_BFC"
      [] RANGE32(o, GIC_DIST_ICFGR0, GIC_DIST_ICFGRN) -> "ICFGR"
      [] RANGE32(o, 3328, 3556) -> "SPI_D00"
      [] RANGE32(o, 3560, 3836) -> "RES_DE8"
      [] RANGE32(o, GIC_DIST_SGIR, GIC_DIST_SGIR) -> "SGIR"
      [] RANGE32(o, 3844, 3852) -> "IMPL_F04"
      [] RANGE32(o, GIC_DIST_CPENDSGIR0, GIC_DIST_CPENDSGIRN) -> "CPENDSGIR"
      [] RANGE32(o, GIC_DIST_SPENDSGIR0, GIC_DIST_SPENDSGIRN) -> "SPENDSGIR"
      [] RANGE32(o, 3888, 4028) -> "RES_F30"
      [] RANGE32(o, 4032, 4091) -> "PERIPH_ID"
      [] OTHER -> "default"

\* reg when the switch is left by break
ReadReg(d, v, o) ==
    LET c == ReadCase(o)
    IN  CASE c = "CTLR" -> d.enable
          [] c = "TYPER" -> d.ic_type
          [] c = "IIDR" -> d.dist_ident
          [] c = "IGROUPR0" -> d.irq_group0[v]
          [] c = "IGROUPRN" -> At(d.irq_group, GIC_DIST_REGN(o, GIC_DIST_IGROUPR1))
          [] c = "ISENABLER0" -> d.enable_set0[v]
          [] c = "ISENABLERN" -> At(d.enable_set, GIC_DIST_REGN(o, GIC_DIST_ISENABLER1))
          [] c = "ICENABLER0" -> d.enable_clr0[v]
          [] c = "ICENABLERN" -> At(d.enable_clr, GIC_DIST_REGN(o, GIC_DIST_ICENABLER1))
          [] c = "ISPENDR0" -> d.pending_set0[v]
          [] c = "ISPENDRN" -> At(d.pending_set, GIC_DIST_REGN(o, GIC_DIST_ISPENDR1))
          [] c = "ICPENDR0" -> d.pending_clr0[v]
          [] c = "ICPENDRN" -> At(d.pending_clr, GIC_DIST_REGN(o, GIC_DIST_ICPENDR1))
          [] c = "ISACTIVER0" -> d.active0[v]
          [] c = "ISACTIVERN" -> At(d.active, GIC_DIST_REGN(o, GIC_DIST_ISACTIVER1))
          [] c = "ICACTIVER0" -> d.active_clr0[v]
          [] c = "ICACTIVERN" -> At(d.active_clr, GIC_DIST_REGN(o, GIC_DIST_ICACTIVER1))
          [] c = "IPRIORITYR0" -> At(d.priority0[v], GIC_DIST_REGN(o, GIC_DIST_IPRIORITYR0))
          [] c = "IPRIORITYRN" -> At(d.priority, GIC_DIST_REGN(o, GIC_DIST_IPRIORITYR8))
          [] c = "ITARGETSR0" -> At(d.targets0[v], GIC_DIST_REGN(o, GIC_DIST_ITARGETSR0))
          [] c = "ITARGETSRN" -> At(d.targets, GIC_DIST_REGN(o, GIC_DIST_ITARGETSR8))
          [] c = "ICFGR" -> At(d.config, GIC_DIST_REGN(o, GIC_DIST_ICFGR0))
          [] c = "SPI_D00" -> At(d.spi, GIC_DIST_REGN(o, 3328))
          [] c = "SGIR" -> d.sgi_control
          [] c = "CPENDSGIR" -> At(d.sgi_pending_clr[v], GIC_DIST_REGN(o, GIC_DIST_CPENDSGIR0))
          [] c = "SPENDSGIR" -> At(d.sgi_pending_set[v], GIC_DIST_REGN(o, GIC_DIST_SPENDSGIR0))
          [] c = "PERIPH_ID" -> At(d.periph_id, GIC_DIST_REGN(o, 4032))
          [] OTHER -> {}

\* a variant in which a read of ISENABLER0 clears the word it has returned
handle_vgic_dist_read_fault_clearing(M, v, offset, mask, err) ==
    IF ReadCase(offset) = "ISENABLER0"
    THEN [M EXCEPT !.dist.enable_set0[v] = {}, !.ret = FaultResult(err)]
    ELSE Return(M, FaultResult(err))

\* the data the fault is given: reg & mask; nothing is set at an unknown offset
handle_vgic_dist_read_fault(M, v, offset, mask, err) ==
    Return(M, FaultResult(err))

ReadData(d, v, offset, mask) ==
    IF ReadCase(offset) = "default" THEN {} ELSE ReadReg(d, v, offset) \cap mask

(* ------------------------------------------------------------------ *)
(* Operations                                                         *)
(* ------------------------------------------------------------------ *)

\* the history of the rings after the calls of log
RECURSIVE Replay(_, _)
Replay(f, log) ==
    IF log = <<>> THEN f
    ELSE LET c == Head(log)
         IN  Replay(CASE c.op = "enqueue" /\ c.ret = 0 ->
                           [f EXCEPT ![c.vcpu] = Append(@, c.handle)]
                      [] c.op = "dequeue" /\ c.handle # NULL ->
                           [f EXCEPT ![c.vcpu] = Tail(@)]
                      [] OTHER -> f,
                    Tail(log))

\* the program state after an operation that ended with machine M
Effect(M, o) ==
    /\ fifo' = Replay(fifo, M.qlog)
    /\ vgic' = M.vgic
    /\ gic_dist' = M.dist
    /\ handles' = M.handles
    /\ obs' = [o EXCEPT !.ret = M.ret, !.loads = M.loads, !.acks = M.acks,
                        !.injects = M.injects, !.qlog = M.qlog]

\* the same, counted as one operation of the run
Commit(M, o) == Effect(M, o) /\ nops' = nops + 1

\* register_irq(vcpu, virq, ack_fn, token): virq_init, then virq_add; the
\* object is released when virq_add fails
RegisterResult(M, v, irq) ==
    LET M1 == virq_init(M, irq)
        M2 == virq_add(M1, v, Len(M1.handles))
    IN  IF M2.ret = 0 THEN M2 ELSE Return(M, -1)

RegisterIrq(v, irq) ==
    /\ Len(handles) < MaxHandlers
    /\ Commit(RegisterResult(Cur, v, irq),
              [NoObs EXCEPT !.op = "register", !.vcpu = v, !.irq = irq])

\* a guest write to the distributor window
WriteFault(v, offset, data, mask, online, err, asserts) ==
    Commit(handle_vgic_dist_write_fault(Cur, v, offset, data, mask, online, err, asserts),
           [NoObs EXCEPT !.op = "write", !.vcpu = v, !.offset = offset,
                         !.data = data, !.mask = mask])

\* a guest read of the distributor window
ReadFault(v, offset, mask, err) ==
    Commit(handle_vgic_dist_read_fault(Cur, v, offset, mask, err),
           [NoObs EXCEPT !.op = "read", !.vcpu = v, !.offset = offset, !.mask = mask,
                         !.rdata = ReadData(gic_dist, v, offset, mask)])

\* inject_irq(vcpu, virq) from an external IRQ source
InjectIrq(v, irq) ==
    Commit(vm_inject_irq(Cur, v, irq),
           [NoObs EXCEPT !.op = "inject", !.vcpu = v, !.irq = irq])

\* the maintenance path: list register idx of vCPU v has retired its IRQ; the
\* IRQ stops being pending, its source is acked, and on_lr_freed promotes the
\* head of the overflow ring into the free register
\* a hook that leaves the ring alone
on_lr_freed_idle(M, v, idx) == Return(M, 0)

on_lr_freed(M, v, idx) ==
    LET h == DequeuedHandle(M, v)
    IN  IF h = NULL THEN Return(M, 0)
        ELSE vgic_vcpu_load_list_reg(vgic_irq_dequeue(M, v), v, idx, h)

Maintenance(M, v, idx) ==
    LET h == M.vgic.lr_shadow[v][idx]
        M1 == [M EXCEPT !.dist = set_pending(@, M.handles[h].virq, FALSE, v)]
        M2 == vgic_shadow_irq(virq_ack(M1, v, h), idx, NULL, v)
    IN  on_lr_freed(M2, v, idx)

OnLrFreed(v, idx) ==
    /\ vgic.lr_shadow[v][idx] # NULL
    /\ Commit(Maintenance(Cur, v, idx),
              [NoObs EXCEPT !.op = "lr_freed", !.vcpu = v, !.irq = idx])

\* vgic_irq_enqueue and vgic_irq_dequeue called on their own
EnqueueCall(v, h) ==
    Commit(vgic_irq_enqueue(Cur, v, h),
           [NoObs EXCEPT !.op = "enqueue", !.vcpu = v, !.irq = h])

DequeueCall(v) ==
    Commit(Return(vgic_irq_dequeue(Cur, v), DequeuedHandle(Cur, v)),
           [NoObs EXCEPT !.op = "dequeue", !.vcpu = v])

(* ------------------------------------------------------------------ *)
(* Spec: two vCPUs; SGI 1 and PPI 17 in bank 0, SPI 33 in bank 1      *)
(* ------------------------------------------------------------------ *)

AllOnline == [v \in Vcpus |-> TRUE]
OnlyFirstOnline == [v \in Vcpus |-> v = 0]

\* a guest write whose fault is resumed without error, in a build without assert
Write(v, offset, data, mask) ==
    WriteFault(v, offset, data, mask, AllOnline, FALSE, FALSE)

\* <<base of bank 0, data>>, and <<base + 4 (bank 1), data>>
BitWrites(base) == {<<base, {1}>>, <<base, {1, 17}>>, <<base + 4, {1}>>}

\* offsets of registers whose writes are ignored: TYPER, IIDR, 0x00C, 0x020,
\* 0x040, IPRIORITYR0, 0x7FC, ITARGETSR8, 0xBFC, ICFGR0, 0xD00, NSACR (0xE00),
\* 0xF04, 0xF30, 0xFC0 and 0xFFF (no case)
IgnoredOffsets == {4, 8, 12, 32, 64, 1024, 2044, 2080, 3068, 3072, 3328, 3584,
                   3844, 3888, 4032, 4095}

\* the VMM runs on until an assert has stopped it
Budget == nops < MaxOps /\ ~(obs.op = "write" /\ obs.ret = "ABORT")

ARegister == \E v \in Vcpus, irq \in {1, 33} : Budget /\ RegisterIrq(v, irq)

AWriteCtlr ==
    \E v \in Vcpus, data \in {{}, {0}, {1}} :
        Budget /\ Write(v, GIC_DIST_CTLR, data, FullMask)

AWriteEnable ==
    \E v \in Vcpus, w \in BitWrites(GIC_DIST_ISENABLER0) :
        Budget /\ Write(v, w[1], w[2], FullMask)

\* ICENABLER2 as well: the word a read of ISENABLER2 returns is bank 1's
AWriteDisable ==
    \E v \in Vcpus, w \in BitWrites(GIC_DIST_ICENABLER0) \cup {<<GIC_DIST_ICENABLER1 + 4, {1}>>} :
        Budget /\ Write(v, w[1], w[2], FullMask)

AWriteSetPending ==
    \E v \in Vcpus, w \in BitWrites(GIC_DIST_ISPENDR0) :
        Budget /\ Write(v, w[1], w[2], FullMask)

AWriteClrPending ==
    \E v \in Vcpus, w \in BitWrites(GIC_DIST_ICPENDR0) :
        Budget /\ Write(v, w[1], w[2], FullMask)

\* <<offset, whether ignore_fault fails>>: TYPER, IPRIORITYR0, NSACR, no case
IgnoredWrites == {<<4, FALSE>>, <<1024, FALSE>>, <<3584, FALSE>>, <<3584, TRUE>>,
                  <<4095, FALSE>>}

AWriteIgnored ==
    \E v \in Vcpus, w \in IgnoredWrites :
        Budget /\ WriteFault(v, w[1], {1, 17}, FullMask, AllOnline, w[2], FALSE)

AInject == \E v \in Vcpus, irq \in {1, 17, 33} : Budget /\ InjectIrq(v, irq)

\* SGIR data for SGI 1: CPUTargetList = {vCPU 1}, all but the writer, the
\* writer alone, and the reserved filter value
SgirData == {{0, 17}, {0, 24}, {0, 25}, {0, 24, 25}}

AWriteSgir ==
    \E v \in Vcpus, data \in SgirData, online \in {AllOnline, OnlyFirstOnline} :
        Budget /\ WriteFault(v, GIC_DIST_SGIR, data, FullMask, online, FALSE, FALSE)

\* a write to GICD_CPENDSGIR0 or GICD_SPENDSGIR0, in a build with assert and
\* in one without (NDEBUG)
AWriteSgiPending ==
    \E v \in Vcpus, offset \in {GIC_DIST_CPENDSGIR0, GIC_DIST_SPENDSGIR0}, asserts \in BOOLEAN :
        Budget /\ WriteFault(v, offset, {0}, FullMask, AllOnline, FALSE, asserts)

Next ==
    \/ ARegister
    \/ AWriteCtlr
    \/ AWriteEnable
    \/ AWriteDisable
    \/ AWriteSetPending
    \/ AWriteClrPending
    \/ AWriteIgnored
    \/ AInject
    \/ AWriteSgir
    \/ AWriteSgiPending

Spec == Init /\ [][Next]_vars

(* ------------------------------------------------------------------ *)
(* SpecDeep: vCPU 0 and SPI 33 alone, followed for longer             *)
(* ------------------------------------------------------------------ *)

BudgetDeep == nops < MaxOpsDeep

DRegister == BudgetDeep /\ RegisterIrq(0, 33)

DWriteCtlr == \E data \in {{}, {0}} : BudgetDeep /\ Write(0, GIC_DIST_CTLR, data, FullMask)

DWriteEnable == BudgetDeep /\ Write(0, GIC_DIST_ISENABLER1, {1}, FullMask)

DWriteDisable == BudgetDeep /\ Write(0, GIC_DIST_ICENABLER1, {1}, FullMask)

DWriteSetPending == BudgetDeep /\ Write(0, GIC_DIST_ISPENDR1, {1}, FullMask)

DWriteClrPending == BudgetDeep /\ Write(0, GIC_DIST_ICPENDR1, {1}, FullMask)

\* NSACR, resumed; IPRIORITYR0, with ignore_fault failing
DWriteIgnored ==
    \E w \in {<<3584, FALSE>>, <<1024, TRUE>>} :
        BudgetDeep /\ WriteFault(0, w[1], {1, 17}, FullMask, AllOnline, w[2], FALSE)

DInject == BudgetDeep /\ InjectIrq(0, 33)

DOnLrFreed == \E idx \in 0 .. (NUM_LIST_REGS - 1) : BudgetDeep /\ OnLrFreed(0, idx)

NextDeep ==
    \/ DRegister
    \/ DWriteCtlr
    \/ DWriteEnable
    \/ DWriteDisable
    \/ DWriteSetPending
    \/ DWriteClrPending
    \/ DWriteIgnored
    \/ DInject
    \/ DOnLrFreed

SpecDeep == Init /\ [][NextDeep]_vars

(* ------------------------------------------------------------------ *)
(* SpecRegs: the group and active words, written and read back        *)
(* ------------------------------------------------------------------ *)

WordOffsets == {GIC_DIST_IGROUPR0, GIC_DIST_IGROUPR1, GIC_DIST_ISACTIVER0,
                GIC_DIST_ISACTIVER1, GIC_DIST_ICACTIVER0, GIC_DIST_ICACTIVER1}

\* a full-word write, and a write of the byte 2 alone
Masks == {FullMask, 16 .. 23}

RWriteWord ==
    \E v \in Vcpus, offset \in WordOffsets, mask \in Masks :
        nops < MaxRegOps /\ Write(v, offset, {1, 17}, mask)

RWriteEnable ==
    \E v \in Vcpus, w \in {<<GIC_DIST_ISENABLER0, {1, 17}>>, <<GIC_DIST_ISENABLER1, {1}>>} :
        nops < MaxRegOps /\ Write(v, w[1], w[2], FullMask)

RRead ==
    \E v \in Vcpus, offset \in WordOffsets \cup {GIC_DIST_ISENABLER0, GIC_DIST_ISENABLER1} :
        nops < MaxRegOps /\ ReadFault(v, offset, FullMask, FALSE)

NextRegs == RWriteWord \/ RWriteEnable \/ RRead

SpecRegs == Init /\ [][NextRegs]_vars

(* ------------------------------------------------------------------ *)
(* SpecQueue: the overflow ring alone, enqueue and dequeue called     *)
(* directly with the handles 1 and 2                                   *)
(* ------------------------------------------------------------------ *)

QEnqueue == \E v \in Vcpus, h \in {1, 2} : nops < MaxCalls /\ EnqueueCall(v, h)

QDequeue == \E v \in Vcpus : nops < MaxCalls /\ DequeueCall(v)

NextQueue == QEnqueue \/ QDequeue

SpecQueue == Init /\ [][NextQueue]_vars

(* ------------------------------------------------------------------ *)
(* Vocabulary of the properties                                       *)
(* ------------------------------------------------------------------ *)

LrSlots == 0 .. (NUM_LIST_REGS - 1)
RingSlots == 0 .. (MAX_IRQ_QUEUE_LEN - 1)

\* the number of list registers of vCPU v whose shadow holds handle h
LrCount(v, h) == Cardinality({i \in LrSlots : vgic.lr_shadow[v][i] = h})

\* the slots of a ring from head up to, not including, tail
LiveSlots(q) ==
    {i \in RingSlots : (i - q.head + MAX_IRQ_QUEUE_LEN) % MAX_IRQ_QUEUE_LEN
                         < (q.tail - q.head + MAX_IRQ_QUEUE_LEN) % MAX_IRQ_QUEUE_LEN}

\* the number of live slots of vCPU v's ring that hold handle h
QueueCount(v, h) ==
    Cardinality({i \in LiveSlots(vgic.irq_queue[v]) : vgic.irq_queue[v].irqs[i] = h})

\* handle h sits in exactly one list register of v, or in v's ring
Held(v, h) == LrCount(v, h) = 1 \/ QueueCount(v, h) >= 1

(* ------------------------------------------------------------------ *)
(* C1                                                                 *)
(* ------------------------------------------------------------------ *)

\* C1: in every reachable state the set word and the clear word of each
\* register pair are equal: enable_set0 = enable_clr0, pending_set0 =
\* pending_clr0 and active0 = active_clr0 on every vCPU, and enable_set =
\* enable_clr, pending_set = pending_clr and active = active_clr in every
\* global word.
PairedBanks ==
    /\ \A v \in Vcpus :
          /\ gic_dist.enable_set0[v] = gic_dist.enable_clr0[v]
          /\ gic_dist.pending_set0[v] = gic_dist.pending_clr0[v]
          /\ gic_dist.active0[v] = gic_dist.active_clr0[v]
    /\ \A k \in WordIdx :
          /\ gic_dist.enable_set[k] = gic_dist.enable_clr[k]
          /\ gic_dist.pending_set[k] = gic_dist.pending_clr[k]
          /\ gic_dist.active[k] = gic_dist.active_clr[k]

(* ------------------------------------------------------------------ *)
(* C2                                                                 *)
(* ------------------------------------------------------------------ *)

\* C2: whenever the pending bit of an IRQ is set, the IRQ has a handler and
\* that handler is held by the injection pipeline: it is in exactly one list
\* register shadow slot or in the overflow ring of the vCPU (for a banked IRQ
\* the vCPU of the bank, for an SPI some vCPU).
PendingTracked ==
    /\ \A v \in Vcpus : \A b \in gic_dist.pending_set0[v] :
          /\ vgic.sgi_ppi_irq[v][b] # NULL
          /\ Held(v, vgic.sgi_ppi_irq[v][b])
    /\ \A k \in WordIdx : \A b \in gic_dist.pending_set[k] :
          /\ virq_find_spi_irq_data(Cur, 32 * k + b) # NULL
          /\ \E v \in Vcpus : Held(v, virq_find_spi_irq_data(Cur, 32 * k + b))

(* ------------------------------------------------------------------ *)
(* C3                                                                 *)
(* ------------------------------------------------------------------ *)

\* C3: on every vCPU a handler occupies at most one place of the pipeline:
\* the list register slots that hold it and the live ring slots that hold it
\* number at most one together.
SingleLocation ==
    \A v \in Vcpus : \A h \in 1 .. Len(handles) :
        LrCount(v, h) + QueueCount(v, h) <= 1

(* ------------------------------------------------------------------ *)
(* C4                                                                 *)
(* ------------------------------------------------------------------ *)

SpiHandlerUnique ==
    \A i, j \in 0 .. (MAX_VIRQS - 1) :
        (i # j /\ vgic.virqs[i] # NULL /\ vgic.virqs[j] # NULL)
            => handles[vgic.virqs[i]].virq # handles[vgic.virqs[j]].virq

(* ------------------------------------------------------------------ *)
(* C6                                                                 *)
(* ------------------------------------------------------------------ *)

\* C6: a write of a word W with a full data mask to ISENABLERn, for n = 0 and
\* for n >= 1, makes a read of ISENABLERn on the same vCPU return W | prior,
\* where prior is what ISENABLERn read before the write.
IsenablerRoundTrip ==
    [][(obs'.op = "write" /\ WriteCase(obs'.offset) = "ISENABLER" /\ obs'.mask = FullMask)
         => ReadData(gic_dist', obs'.vcpu, obs'.offset, FullMask)
              = obs'.data \cup ReadData(gic_dist, obs'.vcpu, obs'.offset, FullMask)]_vars

(* ------------------------------------------------------------------ *)
(* C7                                                                 *)
(* ------------------------------------------------------------------ *)

\* the offset of ISENABLERn, given the offset of ICENABLERn
IsenablerOf(offset) == offset - GIC_DIST_ICENABLER0 + GIC_DIST_ISENABLER0

\* C7: a write of a word W with a full data mask to ICENABLERn makes a read of
\* ISENABLERn on the same vCPU return prior_enabled & ~W, where prior_enabled
\* is what ISENABLERn read before the write; stated here for the SPI banks,
\* n >= 1, where no bit is an SGI.
IcenablerRoundTrip ==
    [][(/\ obs'.op = "write"
        /\ WriteCase(obs'.offset) = "ICENABLER"
        /\ obs'.offset >= GIC_DIST_ICENABLER1
        /\ obs'.mask = FullMask)
         => ReadData(gic_dist', obs'.vcpu, IsenablerOf(obs'.offset), FullMask)
              = ReadData(gic_dist, obs'.vcpu, IsenablerOf(obs'.offset), FullMask) \ obs'.data]_vars

(* ------------------------------------------------------------------ *)
(* C8                                                                 *)
(* ------------------------------------------------------------------ *)

SgiBits == 0 .. (NUM_SGI_VIRQS - 1)

\* C8: on every vCPU, vgic_dist_disable_irq of an SGI (irq < 16) changes
\* nothing; vgic_dist_disable_irq of a PPI or an SPI leaves that IRQ disabled;
\* and after an ICENABLER0 write of W, ISENABLER0 reads what it read before
\* without the PPI bits of W, so every SGI that read enabled still does.
SgiNeverDisabled ==
    \A v \in Vcpus :
        /\ \A irq \in SgiBits : vgic_dist_disable_irq(Cur, v, irq) = Return(Cur, 0)
        /\ \A irq \in {16, 17, 31, 32, 33, 65} :
              ~is_enabled(vgic_dist_disable_irq(Cur, v, irq).dist, irq, v)
        /\ \A W \in {{1}, {1, 17}, {0, 15, 16, 31}} :
              ReadData(handle_vgic_dist_write_fault(Cur, v, GIC_DIST_ICENABLER0, W, FullMask,
                                                    AllOnline, FALSE, FALSE).dist,
                       v, GIC_DIST_ISENABLER0, FullMask)
                = ReadData(gic_dist, v, GIC_DIST_ISENABLER0, FullMask) \ (W \ SgiBits)

\* an ICENABLER0 write with the bits of SGI 1 and PPI 17 has left SGI 1
\* enabled and PPI 17 disabled
SgiStillEnabled ==
    /\ obs.op = "write"
    /\ obs.offset = GIC_DIST_ICENABLER0
    /\ obs.data = {1, 17}
    /\ 1 \in ReadData(gic_dist, obs.vcpu, GIC_DIST_ISENABLER0, FullMask)
    /\ 17 \notin ReadData(gic_dist, obs.vcpu, GIC_DIST_ISENABLER0, FullMask)

(* ------------------------------------------------------------------ *)
(* C9                                                                 *)
(* ------------------------------------------------------------------ *)

\* <<data, mask, whether ignore_fault fails>> of the writes tried on every
\* ignored register
IgnoredData == {<<{0}, FullMask, FALSE>>, <<{1, 17}, FullMask, TRUE>>,
                <<FullMask, 16 .. 23, FALSE>>}

\* C9 (as amended): a write of any value with any mask to a read-only or
\* unsupported register leaves the distributor, the handler tables, every
\* lr_shadow and every irq_queue unchanged and calls nothing, so the register
\* reads the same before and after (the machine the handler leaves is the one
\* it was given, with no call logged); the handler returns FAULT_HANDLED when
\* ignore_fault succeeds and FAULT_ERROR when ignore_fault fails.
IgnoredWriteFrame ==
    \A v \in Vcpus, offset \in IgnoredOffsets, w \in IgnoredData :
        handle_vgic_dist_write_fault(Cur, v, offset, w[1], w[2], AllOnline, w[3], FALSE)
            = Return(Cur, IF w[3] THEN "FAULT_ERROR" ELSE "FAULT_HANDLED")

\* a write to NSACR has been ignored and resumed while every list register
\* of vCPU 0 is in use and its ring holds an entry
IgnoredWriteDone ==
    /\ obs.op = "write"
    /\ obs.offset = 3584
    /\ obs.ret = "FAULT_HANDLED"
    /\ \A i \in LrSlots : vgic.lr_shadow[0][i] # NULL
    /\ fifo[0] # <<>>

\* C9 (as stated): a write to a read-only or unsupported register changes
\* nothing and the fault is resumed with FAULT_HANDLED.
IgnoredWriteHandled ==
    [][(obs'.op = "write" /\ WriteCase(obs'.offset) \in IgnoredWriteCases)
         => (/\ gic_dist' = gic_dist
             /\ vgic' = vgic
             /\ handles' = handles
             /\ obs'.ret = "FAULT_HANDLED")]_vars

(* ------------------------------------------------------------------ *)
(* C10                                                                *)
(* ------------------------------------------------------------------ *)

\* no handler is registered for irq on vCPU v
NoHandler(v, irq) ==
    IF irq < GIC_SPI_IRQ_MIN THEN vgic.sgi_ppi_irq[v][irq] = NULL
    ELSE \A i \in 0 .. (MAX_VIRQS - 1) :
             vgic.virqs[i] = NULL \/ handles[vgic.virqs[i]].virq # irq

\* the enable bit of irq on vCPU v
EnableBit(v, irq) ==
    IF irq < GIC_SPI_IRQ_MIN THEN irq \in gic_dist.enable_set0[v]
    ELSE (irq % 32) \in gic_dist.enable_set[irq \div 32]

\* C10: on every vCPU and for every irq, when no handler is registered for
\* the irq, or the distributor is disabled, or the enable bit of the irq is
\* clear on that vCPU, set_pending_irq and inject_irq return -1, leave the
\* distributor (the pending bits included), every irq_queue and every
\* lr_shadow unchanged and make no call of load_list_reg, of the ring or of
\* an ack function.
NotDeliverableFrame ==
    \A v \in Vcpus, irq \in {0, 1, 17, 33, 34, 65} :
        (NoHandler(v, irq) \/ gic_dist.enable = {} \/ ~EnableBit(v, irq))
            => /\ vgic_dist_set_pending_irq(Cur, v, irq) = Return(Cur, -1)
               /\ vm_inject_irq(Cur, v, irq)
                    = [Return(Cur, -1) EXCEPT !.injects = <<[vcpu |-> v, virq |-> irq]>>]

\* an injection of an IRQ that has a handler and is enabled has returned -1
\* because the distributor is disabled
InjectRefusedByCtlr ==
    /\ obs.op = "inject"
    /\ obs.ret = -1
    /\ ~NoHandler(obs.vcpu, obs.irq)
    /\ EnableBit(obs.vcpu, obs.irq)
    /\ gic_dist.enable = {}

(* ------------------------------------------------------------------ *)
(* The list register overflow scenario: vCPU 0 and as many SPIs as the *)
(* handler table holds, registered in the order of their numbers      *)
(* ------------------------------------------------------------------ *)

BudgetOverflow == nops < MaxOpsOverflow

\* the SPIs of the scenario, as bits of bank 1
OverflowBits == 0 .. (MAX_VIRQS - 1)

\* the VMM registers its handlers before the guest turns the distributor on
ORegister ==
    /\ BudgetOverflow
    /\ gic_dist.enable = {}
    /\ gic_dist.enable_set[1] = {}
    /\ Len(handles) < MAX_VIRQS
    /\ Commit(RegisterResult(Cur, 0, GIC_SPI_IRQ_MIN + Len(handles)),
              [NoObs EXCEPT !.op = "register", !.vcpu = 0,
                            !.irq = GIC_SPI_IRQ_MIN + Len(handles)])

\* the guest enables every SPI of the scenario, once
OWriteEnable ==
    /\ BudgetOverflow
    /\ gic_dist.enable = {}
    /\ gic_dist.enable_set[1] = {}
    /\ Write(0, GIC_DIST_ISENABLER1, OverflowBits, FullMask)

\* and then turns the distributor on
OWriteCtlr ==
    /\ BudgetOverflow
    /\ gic_dist.enable = {}
    /\ gic_dist.enable_set[1] # {}
    /\ Write(0, GIC_DIST_CTLR, {0}, FullMask)

\* one of the two lowest SPIs that are not pending is set pending
OWriteSetPending ==
    \E b \in OverflowBits \ gic_dist.pending_set[1] :
        /\ Cardinality({c \in OverflowBits \ gic_dist.pending_set[1] : c < b}) <= 1
        /\ BudgetOverflow
        /\ gic_dist.enable # {}
        /\ Write(0, GIC_DIST_ISPENDR1, {b}, FullMask)

\* every pending SPI of the scenario stops being pending at once
OWriteClrPending ==
    /\ BudgetOverflow
    /\ gic_dist.pending_set[1] # {}
    /\ Write(0, GIC_DIST_ICPENDR1, OverflowBits, FullMask)

OOnLrFreed == \E idx \in LrSlots : BudgetOverflow /\ OnLrFreed(0, idx)

NextOverflow ==
    \/ ORegister
    \/ OWriteCtlr
    \/ OWriteEnable
    \/ OWriteSetPending
    \/ OWriteClrPending
    \/ OOnLrFreed

SpecOverflow == Init /\ [][NextOverflow]_vars

(* ------------------------------------------------------------------ *)
(* The same scenario with a maintenance path that keeps running: list  *)
(* registers retire their IRQ, on_lr_freed is called each time, and    *)
(* this never stops while a list register holds an IRQ                 *)
(* ------------------------------------------------------------------ *)

LOnLrFreed ==
    \E idx \in LrSlots :
        /\ vgic.lr_shadow[0][idx] # NULL
        /\ Effect(Maintenance(Cur, 0, idx),
                  [NoObs EXCEPT !.op = "lr_freed", !.vcpu = 0, !.irq = idx])
        /\ UNCHANGED nops

\* the guest starts once every slot of the handler table is taken
LWriteEnable == Len(handles) = MAX_VIRQS /\ OWriteEnable

\* the lowest SPI that is not pending is set pending
LWriteSetPending ==
    /\ OWriteSetPending
    /\ obs'.data = {CTZ(OverflowBits \ gic_dist.pending_set[1])}

NextLive ==
    \/ ORegister
    \/ LWriteEnable
    \/ OWriteCtlr
    \/ LWriteSetPending
    \/ LOnLrFreed

SpecLive == Init /\ [][NextLive]_vars /\ WF_vars(LOnLrFreed)

(* ------------------------------------------------------------------ *)
(* C11                                                                *)
(* ------------------------------------------------------------------ *)

\* the pending bit of irq on vCPU v
PendingBit(v, irq) ==
    IF irq < GIC_SPI_IRQ_MIN THEN irq \in gic_dist.pending_set0[v]
    ELSE (irq % 32) \in gic_dist.pending_set[irq \div 32]

\* irq has a handler, the distributor is enabled and irq is enabled on v
Deliverable(v, irq) ==
    ~NoHandler(v, irq) /\ gic_dist.enable # {} /\ EnableBit(v, irq)

\* the places handle h occupies in the list registers and the ring of vCPU v
\* of a struct vgic g
Places(g, v, h) ==
    Cardinality({i \in LrSlots : g.lr_shadow[v][i] = h})
      + Cardinality({i \in LiveSlots(g.irq_queue[v]) : g.irq_queue[v].irqs[i] = h})

PipelineEmpty(g, v) ==
    /\ \A i \in LrSlots : g.lr_shadow[v][i] = NULL
    /\ g.irq_queue[v].head = g.irq_queue[v].tail

\* the machine once irq has a handler: as it is, or after register_irq
Registered(M, v, irq) ==
    IF virq_find_irq_data(M, v, irq) # NULL THEN M ELSE RegisterResult(M, v, irq)

\* the write of bit irq % 32 to the word of irq in the bank at base
BitWrite(M, v, base, irq) ==
    handle_vgic_dist_write_fault(M, v, base + 4 * (irq \div 32), {irq % 32}, FullMask,
                                 AllOnline, FALSE, FALSE)

\* scenario S1 from machine M: register, enable, set pending
S1Run(M, v, irq) ==
    BitWrite(BitWrite(Registered(M, v, irq), v, GIC_DIST_ISENABLER0, irq),
             v, GIC_DIST_ISPENDR0, irq)

\* C12: with the distributor enabled, every list register free and the ring
\* empty, registering an SPI (42, or 33) that is not pending, writing its bit
\* to ISENABLER1 and then to ISPENDR1 calls load_list_reg exactly once, with
\* lr_idx 0 and the SPI's handler, leaves lr_shadow[vcpu][0] referring to the
\* handler and the ring empty again.
FastPathLoad ==
    \A v \in Vcpus, irq \in {33, 42} :
        LET h == virq_find_irq_data(Registered(Cur, v, irq), v, irq)
            M == S1Run(Cur, v, irq)
        IN  (/\ gic_dist.enable # {}
             /\ PipelineEmpty(vgic, v)
             /\ ~PendingBit(v, irq)
             /\ h # NULL)
            => /\ M.loads = <<[vcpu |-> v, idx |-> 0, handle |-> h]>>
               /\ M.vgic.lr_shadow[v] = [vgic.lr_shadow[v] EXCEPT ![0] = h]
               /\ PipelineEmpty([M.vgic EXCEPT !.lr_shadow[v][0] = NULL], v)
               /\ M.qlog = <<[op |-> "enqueue", vcpu |-> v, handle |-> h, ret |-> 0],
                             [op |-> "dequeue", vcpu |-> v, handle |-> h, ret |-> h]>>
               /\ M.ret = "FAULT_HANDLED"

\* the ISPENDR1 write of S1 has loaded the handler of the SPI into list
\* register 0, the only occupied one, through an empty ring
FastPathLoaded ==
    /\ obs.op = "write"
    /\ obs.offset = GIC_DIST_ISPENDR0 + 4
    /\ Len(obs.loads) = 1
    /\ obs.loads[1].idx = 0
    /\ obs.loads[1].handle = virq_find_irq_data(Cur, obs.vcpu, 33)
    /\ vgic.lr_shadow[obs.vcpu][0] = obs.loads[1].handle
    /\ \A i \in 1 .. (NUM_LIST_REGS - 1) : vgic.lr_shadow[obs.vcpu][i] = NULL
    /\ fifo[obs.vcpu] = <<>>

(* ------------------------------------------------------------------ *)
(* C13                                                                *)
(* ------------------------------------------------------------------ *)

\* the word a guest read of ISPENDR(irq / 32) returns on vCPU v from
\* distributor d
IspendrOf(d, v, irq) ==
    ReadData(d, v, GIC_DIST_ISPENDR0 + 4 * (irq \div 32), FullMask)

\* C13: after a successful set-pending of IRQ q on vCPU v a read of
\* ISPENDR(q / 32) has bit q % 32 set, and after a clear-pending of q the
\* same read has the bit clear: the pending word set_pending updates for q is
\* the word the read handler returns.
PendingReadBack ==
    \A v \in Vcpus, q \in {1, 17, 33} :
        LET S == vgic_dist_set_pending_irq(Cur, v, q)
            C == vgic_dist_clr_pending_irq(S, v, q)
        IN  S.ret = 0 =>
                /\ (q % 32) \in IspendrOf(S.dist, v, q)
                /\ (q % 32) \notin IspendrOf(C.dist, v, q)

(* ------------------------------------------------------------------ *)
(* C14                                                                *)
(* ------------------------------------------------------------------ *)

\* the handler of an SPI
H(irq) == virq_find_spi_irq_data(Cur, irq)

\* the start of scenario S2 on vCPU v: list registers free, ring empty with
\* head = tail = 0, distributor enabled, SPIs 32..36 with a handler, enabled
\* and not pending
S2Start(v) ==
    /\ gic_dist.enable # {}
    /\ PipelineEmpty(vgic, v)
    /\ vgic.irq_queue[v].head = 0
    /\ \A irq \in 32 .. 36 : Deliverable(v, irq) /\ ~PendingBit(v, irq)

\* set-pending of SPIs lo..hi in that order
RECURSIVE SetPendingRun(_, _, _, _)
SetPendingRun(M, v, lo, hi) ==
    IF lo > hi THEN M
    ELSE SetPendingRun(vgic_dist_set_pending_irq(M, v, lo), v, lo + 1, hi)

\* on_lr_freed(vcpu) once list register idx of machine M is free again
AfterLrFreed(M, v, idx) ==
    on_lr_freed([M EXCEPT !.vgic.lr_shadow[v][idx] = NULL, !.loads = <<>>, !.qlog = <<>>],
                v, idx)

\* what S2 leaves apart from the ring indices: handlers 32..35 in list
\* registers 0..3 through four load_list_reg calls, the ring holding the
\* handler of 36 alone, which on_lr_freed dequeues and loads into the freed
\* list register, leaving the ring empty
S2Outcome(v) ==
    LET M == SetPendingRun(Cur, v, 32, 36)
        q == M.vgic.irq_queue[v]
    IN  /\ M.ret = 0
        /\ M.vgic.lr_shadow[v] = [i \in LrSlots |-> H(32 + i)]
        /\ M.loads = [i \in 1 .. 4 |-> [vcpu |-> v, idx |-> i - 1, handle |-> H(31 + i)]]
        /\ LiveSlots(q) = {q.head}
        /\ q.irqs[q.head] = H(36)
        /\ \A idx \in LrSlots :
               LET F == AfterLrFreed(M, v, idx)
               IN  /\ F.loads = <<[vcpu |-> v, idx |-> idx, handle |-> H(36)]>>
                   /\ F.qlog = <<[op |-> "dequeue", vcpu |-> v, handle |-> H(36),
                                   ret |-> H(36)]>>
                   /\ F.vgic.lr_shadow[v] = [M.vgic.lr_shadow[v] EXCEPT ![idx] = H(36)]
                   /\ F.vgic.irq_queue[v].head = F.vgic.irq_queue[v].tail

\* C14 as the code has it: from all list registers free and the ring empty
\* with head = tail = 0, setting enabled SPIs 32, 33, 34, 35, 36 pending in
\* that order on one vCPU puts handlers 32..35 in lr_shadow slots 0..3 with
\* exactly 4 load_list_reg calls and leaves the ring holding exactly the
\* handler of 36, with head = 4 and tail = 5 (each of the five went through
\* the ring); a following on_lr_freed dequeues the handler of 36, loads it
\* into the freed list register and leaves the ring empty.
LrOverflow ==
    \A v \in Vcpus :
        S2Start(v) =>
            /\ S2Outcome(v)
            /\ SetPendingRun(Cur, v, 32, 36).vgic.irq_queue[v].head = 4
            /\ SetPendingRun(Cur, v, 32, 36).vgic.irq_queue[v].tail = 5

\* C14 as stated: the same, with the ring at head = 0 and tail = 1
LrOverflowAsStated ==
    \A v \in Vcpus :
        S2Start(v) =>
            /\ S2Outcome(v)
            /\ SetPendingRun(Cur, v, 32, 36).vgic.irq_queue[v].head = 0
            /\ SetPendingRun(Cur, v, 32, 36).vgic.irq_queue[v].tail = 1

\* S2 has run: after five set-pending writes that were the only users of the
\* ring, on_lr_freed has loaded the handler of SPI 36 into the freed list
\* register, the others still hold the handlers of their own SPIs, and the
\* ring is empty
OverflowDrained ==
    /\ obs.op = "lr_freed"
    /\ obs.loads = <<[vcpu |-> 0, idx |-> obs.irq, handle |-> H(36)]>>
    /\ H(36) # NULL
    /\ \A i \in LrSlots \ {obs.irq} : vgic.lr_shadow[0][i] = H(32 + i)
    /\ vgic.lr_shadow[0][obs.irq] = H(36)
    /\ vgic.irq_queue[0].head = 5
    /\ vgic.irq_queue[0].tail = 5
    /\ fifo[0] = <<>>

(* ------------------------------------------------------------------ *)
(* C15                                                                *)
(* ------------------------------------------------------------------ *)

\* SGIR values: SGI 1 with filter 0 and CPUTargetLists over vCPUs 0..2, and
\* SGI 2 with each other filter
SgirValues ==
    {{0} \cup {16 + i : i \in L} : L \in (SUBSET {0, 1}) \cup {{1, 2}}}
      \cup {{1, 16} \cup f : f \in (SUBSET {24, 25}) \ {{}}}

\* the vCPUs an SGIR write of data by vCPU r selects
SgiSelected(r, data) ==
    LET f == Val(data \cap {24, 25}) \div (2 ^ 24)
    IN  {i \in Vcpus : CASE f = 0 -> (16 + i) \in data
                          [] f = 1 -> i # r
                          [] f = 2 -> i = r
                          [] OTHER -> FALSE}

\* the SGI number data[3:0]
SgiIntId(data) == Val(data \cap (0 .. 3))

\* C15: an SGIR write by vCPU r calls inject_irq(vcpus[i], data[3:0]) exactly
\* once for each online vCPU i the filter selects (0: bit i of the
\* CPUTargetList, 1: i # r, 2: i = r, 3: none) and for no other, and leaves
\* lr_shadow, irq_queue and the bank-0 pending word of every vCPU that is not
\* selected or not online as they were.
SgiDispatch ==
    \A r \in Vcpus, data \in SgirValues, online \in [Vcpus -> BOOLEAN] :
        LET M == handle_vgic_dist_write_fault(Cur, r, GIC_DIST_SGIR, data, FullMask,
                                              online, FALSE, FALSE)
            T == {i \in SgiSelected(r, data) : online[i]}
        IN  /\ Len(M.injects) = Cardinality(T)
            /\ {M.injects[k] : k \in DOMAIN M.injects}
                 = {[vcpu |-> i, virq |-> SgiIntId(data)] : i \in T}
            /\ \A i \in Vcpus \ T :
                   /\ M.vgic.lr_shadow[i] = vgic.lr_shadow[i]
                   /\ M.vgic.irq_queue[i] = vgic.irq_queue[i]
                   /\ M.dist.pending_set0[i] = gic_dist.pending_set0[i]

\* an SGIR write by one vCPU has injected SGI 1 into the other vCPU alone,
\* where it was loaded into a list register
SgiSentToOther ==
    /\ obs.op = "write"
    /\ obs.offset = GIC_DIST_SGIR
    /\ Len(obs.injects) = 1
    /\ obs.injects[1].vcpu # obs.vcpu
    /\ Len(obs.loads) = 1
    /\ obs.loads[1].vcpu = obs.injects[1].vcpu
    /\ 1 \in gic_dist.pending_set0[obs.injects[1].vcpu]
    /\ 1 \notin gic_dist.pending_set0[obs.vcpu]

(* ------------------------------------------------------------------ *)
(* C16                                                                *)
(* ------------------------------------------------------------------ *)

\* the enable bit of irq on vCPU v in distributor d
EnableBitOf(d, v, irq) ==
    IF irq < GIC_SPI_IRQ_MIN THEN irq \in d.enable_set0[v]
    ELSE (irq % 32) \in d.enable_set[irq \div 32]

\* C16: vgic_dist_enable_irq always sets the enable bit and returns 0; it
\* calls the ack callback exactly once, with (vcpu, virq, token), when a
\* handler is registered and the IRQ's pending bit is clear, and not at all
\* otherwise; the pending words, lr_shadow and irq_queue are as before.
EnableAcks ==
    \A v \in Vcpus, irq \in {1, 17, 33, 34} :
        LET M == vgic_dist_enable_irq(Cur, v, irq)
            h == virq_find_irq_data(Cur, v, irq)
        IN  /\ M.ret = 0
            /\ EnableBitOf(M.dist, v, irq)
            /\ M.acks = IF h # NULL /\ ~PendingBit(v, irq)
                         THEN <<[vcpu |-> v, virq |-> irq, handle |-> h]>>
                         ELSE <<>>
            /\ M.vgic = vgic
            /\ M.dist.pending_set0 = gic_dist.pending_set0
            /\ M.dist.pending_clr0 = gic_dist.pending_clr0
            /\ M.dist.pending_set = gic_dist.pending_set
            /\ M.dist.pending_clr = gic_dist.pending_clr
            /\ M.loads = <<>> /\ M.qlog = <<>>

\* an ISENABLER1 write has enabled SPI 33, which has a handler and is
\* pending, without an ack
EnabledWhilePending ==
    /\ obs.op = "write"
    /\ obs.offset = GIC_DIST_ISENABLER1
    /\ 1 \in obs.data
    /\ obs.acks = <<>>
    /\ ~NoHandler(obs.vcpu, 33)
    /\ PendingBit(obs.vcpu, 33)
    /\ EnableBitOf(gic_dist, obs.vcpu, 33)

(* ------------------------------------------------------------------ *)
(* C17                                                                *)
(* ------------------------------------------------------------------ *)

\* C17: every guest write, whatever its offset, reaches ignore_fault and
\* returns FAULT_HANDLED (FAULT_ERROR when ignore_fault fails): no write
\* aborts the handler or leaves the fault unresumed.
WriteAlwaysResumed ==
    obs.op = "write" => obs.ret \in {"FAULT_HANDLED", "FAULT_ERROR"}

(* ------------------------------------------------------------------ *)
(* C18                                                                *)
(* ------------------------------------------------------------------ *)

\* register_irq called alone, until the SPI table is full and beyond
TRegister ==
    \E v \in Vcpus, irq \in {1, 17, 33, 34} :
        /\ nops < MaxAdds
        /\ Commit(RegisterResult(Cur, v, irq),
                  [NoObs EXCEPT !.op = "register", !.vcpu = v, !.irq = irq])

SpecTable == Init /\ [][TRegister]_vars

\* C18: adding an SGI or PPI handler to an occupied slot returns -1 and
\* leaves the slot; to an empty slot it stores the handler in exactly that
\* slot of that vCPU; an SPI handler goes to the lowest-index empty slot of
\* virqs[], or the call returns -1 with the table unchanged when all
\* MAX_VIRQS slots are occupied; after a successful registration the lookup
\* of (vcpu, virq) returns a handler whose virq is the requested one.
RegistrationSlots ==
    \A v \in Vcpus, irq \in {1, 17, 33, 34} :
        LET M1 == virq_init(Cur, irq)
            h == Len(M1.handles)
            M == virq_add(M1, v, h)
            free == {i \in 0 .. (MAX_VIRQS - 1) : vgic.virqs[i] = NULL}
            found == virq_find_irq_data(M, v, irq)
        IN  /\ IF irq < GIC_SPI_IRQ_MIN
               THEN IF vgic.sgi_ppi_irq[v][irq] # NULL
                    THEN M.ret = -1 /\ M.vgic = vgic
                    ELSE M.ret = 0 /\ M.vgic = [vgic EXCEPT !.sgi_ppi_irq[v][irq] = h]
               ELSE IF free = {}
                    THEN M.ret = -1 /\ M.vgic = vgic
                    ELSE /\ M.ret = 0
                         /\ \E i \in free :
                                /\ \A j \in free : i <= j
                                /\ M.vgic = [vgic EXCEPT !.virqs[i] = h]
            /\ M.ret = 0 => found # NULL /\ M.handles[found].virq = irq
            /\ M.dist = gic_dist

\* a registration of an SPI has been refused on a full table, after one of
\* an SGI was refused, on the vCPU that has it, or accepted
TableFullRefused ==
    /\ obs.op = "register"
    /\ obs.irq >= GIC_SPI_IRQ_MIN
    /\ obs.ret = -1
    /\ \A i \in 0 .. (MAX_VIRQS - 1) : vgic.virqs[i] # NULL
    /\ vgic.sgi_ppi_irq[0][1] # NULL
    /\ vgic.sgi_ppi_irq[1][1] = NULL

(* ------------------------------------------------------------------ *)
(* C19                                                                *)
(* ------------------------------------------------------------------ *)

\* the handles of the calls in log on vCPU v that moved a handler: enqueues
\* that returned 0, dequeues that returned a handler
Moved(log, v, op) ==
    LET hit == SelectSeq(log, LAMBDA c : /\ c.op = op
                                         /\ c.vcpu = v
                                         /\ IF op = "enqueue" THEN c.ret = 0
                                            ELSE c.handle # NULL)
    IN  [i \in 1 .. Len(hit) |-> hit[i].handle]

\* the handles load_list_reg was called with on vCPU v
Loaded(loads, v) ==
    LET hit == SelectSeq(loads, LAMBDA c : c.vcpu = v)
    IN  [i \in 1 .. Len(hit) |-> hit[i].handle]

\* a set_pending_irq that loads a list register loads the handler of its own
\* IRQ, and the ring held no older entry
LoadsOwnIrq ==
    \A v \in Vcpus, irq \in {0, 1} \cup (32 .. 36) :
        LET M == vgic_dist_set_pending_irq(Cur, v, irq)
        IN  M.loads # <<>> =>
                /\ Len(M.loads) = 1
                /\ M.loads[1].vcpu = v
                /\ M.loads[1].handle = virq_find_irq_data(Cur, v, irq)
                /\ vgic.irq_queue[v].head = vgic.irq_queue[v].tail
                /\ fifo[v] = <<>>
                /\ M.vgic.irq_queue[v].head = M.vgic.irq_queue[v].tail

\* in one operation, on each vCPU: the handlers dequeued are the oldest
\* enqueued, oldest first, and they are the handlers loaded, in that order
LoadsInOrder ==
    \A v \in Vcpus :
        /\ fifo[v] \o Moved(obs'.qlog, v, "enqueue")
             = Moved(obs'.qlog, v, "dequeue") \o fifo'[v]
        /\ Loaded(obs'.loads, v) = Moved(obs'.qlog, v, "dequeue")

\* C19: in every reachable state, when set_pending_irq finds an empty list
\* register after enqueueing, the handler it dequeues and passes to
\* load_list_reg is the handler of the IRQ this call made pending (the ring
\* held no older entry); and on each vCPU handlers reach the list registers
\* in the order in which they were enqueued.
LoadsJustQueued == [](LoadsOwnIrq) /\ [][LoadsInOrder]_vars

\* a set-pending write has put the handler of its SPI, through an empty
\* ring, into a list register that the maintenance path had freed (a list
\* register after it is still occupied)
LoadedAfterDrain ==
    /\ obs.op = "write"
    /\ obs.offset = GIC_DIST_ISPENDR1
    /\ Len(obs.loads) = 1
    /\ Len(obs.qlog) = 2
    /\ obs.loads[1].handle = obs.qlog[1].handle
    /\ obs.loads[1].handle = H(32 + CTZ(obs.data))
    /\ vgic.irq_queue[0].head = vgic.irq_queue[0].tail
    /\ \E j \in LrSlots : j > obs.loads[1].idx /\ vgic.lr_shadow[0][j] # NULL

(* ------------------------------------------------------------------ *)
(* C20                                                                *)
(* ------------------------------------------------------------------ *)

\* handle h is a live entry of the ring of vCPU v
InRing(v, h) ==
    \E i \in LiveSlots(vgic.irq_queue[v]) : vgic.irq_queue[v].irqs[i] = h

\* handle h is in a list register of vCPU v
InListReg(v, h) == \E i \in LrSlots : vgic.lr_shadow[v][i] = h

\* a handler leaves the ring only by being passed to load_list_reg
DequeuedIsLoaded ==
    \A v \in Vcpus :
        \A h \in 1 .. MAX_VIRQS :
            InRing(v, h) /\ ~InRing(v, h)' =>
                \E k \in DOMAIN obs'.loads :
                    obs'.loads[k].vcpu = v /\ obs'.loads[k].handle = h

\* C20: a handler that set_pending_irq left in the ring of a vCPU because no
\* list register was empty is, as long as list registers keep being freed
\* and on_lr_freed is called each time, eventually dequeued and loaded into a
\* list register; it does not stay in the ring forever and is not dropped.
QueuedDelivered ==
    /\ \A h \in 1 .. MAX_VIRQS : InRing(0, h) ~> (~InRing(0, h) /\ InListReg(0, h))
    /\ [][DequeuedIsLoaded]_vars

\* a set-pending write has returned with its handler left in the ring
\* behind four occupied list registers
LeftInRing ==
    /\ obs.op = "write"
    /\ obs.offset = GIC_DIST_ISPENDR1
    /\ obs.ret = "FAULT_HANDLED"
    /\ obs.loads = <<>>
    /\ Len(obs.qlog) = 1
    /\ obs.qlog[1].op = "enqueue" /\ obs.qlog[1].ret = 0
    /\ InRing(0, obs.qlog[1].handle)
    /\ \A i \in LrSlots : vgic.lr_shadow[0][i] # NULL

(* ------------------------------------------------------------------ *)
(* C21                                                                *)
(* ------------------------------------------------------------------ *)

\* the word a guest read of the register at offset o returns on vCPU v
WordOf(d, v, o) == ReadData(d, v, o, FullMask)

\* the word registers whose first bank is per vCPU
BankedWordOffsets == {GIC_DIST_IGROUPR0, GIC_DIST_ISACTIVER0, GIC_DIST_ICACTIVER0}

\* C21: a guest write with data D and mask M to IGROUPR0, IGROUPR1..N,
\* ISACTIVER0, ISACTIVER1..N, ICACTIVER0 or ICACTIVER1..N replaces the word
\* of that register by (old & ~M) | (D & M), old being what the register
\* read right before the write, so that a read right after returns that
\* value; the word of no other register changes.
WordWriteThrough ==
    [][(obs'.op = "write" /\ obs'.offset \in WordOffsets) =>
          /\ WordOf(gic_dist', obs'.vcpu, obs'.offset)
               = fault_emulate(obs'.data, obs'.mask,
                               WordOf(gic_dist, obs'.vcpu, obs'.offset))
          /\ \A o \in WordOffsets \ {obs'.offset}, v \in Vcpus :
                 WordOf(gic_dist', v, o) = WordOf(gic_dist, v, o)
          /\ \A v \in Vcpus \ {obs'.vcpu} :
                 obs'.offset \in BankedWordOffsets =>
                     WordOf(gic_dist', v, obs'.offset) = WordOf(gic_dist, v, obs'.offset)
      ]_vars

(***************************************************************************)
(* The full ring: SPIs are set pending and cleared again with no           *)
(* maintenance interrupt in between, so the list registers stay occupied   *)
(* and every further set-pending takes a slot of the ring                  *)
(* (vdist.h:198-239, virq.h:134-146).                                      *)
(***************************************************************************)
BudgetFull == nops < MaxOpsFull

\* the lowest SPI of the scenario that is not pending is set pending
FWriteSetPending ==
    /\ BudgetFull
    /\ gic_dist.enable # {}
    /\ OverflowBits \ gic_dist.pending_set[1] # {}
    /\ Write(0, GIC_DIST_ISPENDR1, {CTZ(OverflowBits \ gic_dist.pending_set[1])}, FullMask)

\* every pending SPI of the scenario stops being pending at once
FWriteClrPending ==
    /\ BudgetFull
    /\ gic_dist.pending_set[1] # {}
    /\ Write(0, GIC_DIST_ICPENDR1, OverflowBits, FullMask)

NextFull ==
    \/ ORegister
    \/ OWriteEnable
    \/ OWriteCtlr
    \/ FWriteSetPending
    \/ FWriteClrPending

SpecFull == Init /\ [][NextFull]_vars

\* C22: a vgic_dist_set_pending_irq of a deliverable IRQ that is not pending,
\* made while the irq_queue of the vCPU is full, returns -1 and leaves the
\* distributor and the vgic as they were: the pending bit of the IRQ stays
\* clear, no list register and no slot of the ring changes, nothing is loaded.
QueueFullAtomic ==
    \A irq \in {GIC_SPI_IRQ_MIN + b : b \in OverflowBits} :
        (/\ Deliverable(0, irq)
         /\ ~PendingBit(0, irq)
         /\ QueueFull(vgic.irq_queue[0]))
        => LET R == vgic_dist_set_pending_irq(Cur, 0, irq)
           IN  /\ R.ret = -1
               /\ R.dist = gic_dist
               /\ R.vgic = vgic
               /\ R.loads = <<>>

(***************************************************************************)
(* Reads of the distributor window (vdist.h:249-403).                      *)
(***************************************************************************)
\* one offset of every case of the switch, and one offset of no case
ReadOffsets ==
    {GIC_DIST_CTLR, GIC_DIST_TYPER, GIC_DIST_IIDR, 12, 32, 64,
     GIC_DIST_IGROUPR0, GIC_DIST_IGROUPR1, GIC_DIST_ISENABLER0, GIC_DIST_ISENABLER1,
     GIC_DIST_ICENABLER0, GIC_DIST_ICENABLER1, GIC_DIST_ISPENDR0, GIC_DIST_ISPENDR1,
     GIC_DIST_ICPENDR0, GIC_DIST_ICPENDR1, GIC_DIST_ISACTIVER0, GIC_DIST_ISACTIVER1,
     GIC_DIST_ICACTIVER0, GIC_DIST_ICACTIVER1, GIC_DIST_IPRIORITYR0, GIC_DIST_IPRIORITYR8,
     2044, GIC_DIST_ITARGETSR0, GIC_DIST_ITARGETSR8, 3068, GIC_DIST_ICFGR0, 3328, 3560,
     GIC_DIST_SGIR, 3844, GIC_DIST_CPENDSGIR0, GIC_DIST_SPENDSGIR0, 3888, 4032, 4092}

\* a read of offset o by vCPU v, made in the current state, changes nothing
\* and calls nothing
ReadLeavesState(v, o, mask, err) ==
    LET R == handle_vgic_dist_read_fault(Cur, v, o, mask, err)
    IN  /\ R.dist = gic_dist
        /\ R.vgic = vgic
        /\ R.handles = handles
        /\ R.acks = <<>> /\ R.loads = <<>> /\ R.injects = <<>> /\ R.qlog = <<>>

\* a read step leaves the state alone, returns the word of the register under
\* the mask, and returns what the read right before it of the same register
\* returned
ReadStep ==
    obs'.op = "read" =>
        /\ gic_dist' = gic_dist /\ vgic' = vgic /\ handles' = handles /\ fifo' = fifo
        /\ obs'.acks = <<>> /\ obs'.loads = <<>> /\ obs'.injects = <<>> /\ obs'.qlog = <<>>
        /\ ReadCase(obs'.offset) # "default" =>
               obs'.rdata = WordOf(gic_dist, obs'.vcpu, obs'.offset) \cap obs'.mask
        /\ (obs.op = "read" /\ obs.vcpu = obs'.vcpu /\ obs.offset = obs'.offset
                            /\ obs.mask = obs'.mask) => obs'.rdata = obs.rdata

BankOf(d, g, b) ==
    [enable_set0 |-> d.enable_set0[b], enable_clr0 |-> d.enable_clr0[b],
     pending_set0 |-> d.pending_set0[b], pending_clr0 |-> d.pending_clr0[b],
     active0 |-> d.active0[b], active_clr0 |-> d.active_clr0[b],
     irq_group0 |-> d.irq_group0[b],
     sgi_ppi_irq |-> g.sgi_ppi_irq[b],
     lr_shadow |-> g.lr_shadow[b],
     irq_queue |-> g.irq_queue[b]]

\* a write of the group or active word of bank 0 by vCPU a, made in the
\* current state, leaves the bank of every other vCPU alone
WordWriteIsolated(a, o, mask) ==
    LET R == handle_vgic_dist_write_fault(Cur, a, o, {1, 17}, mask, AllOnline, FALSE, FALSE)
    IN  \A b \in Vcpus \ {a} : BankOf(R.dist, R.vgic, b) = BankOf(gic_dist, vgic, b)

\* a step that is a write by vCPU a to a register other than SGIR, or an
\* inject_irq on vCPU a, leaves the bank of every other vCPU alone
IsolatedStep ==
    ((obs'.op = "write" /\ obs'.offset # GIC_DIST_SGIR) \/ obs'.op = "inject") =>
        \A b \in Vcpus \ {obs'.vcpu} :
            BankOf(gic_dist', vgic', b) = BankOf(gic_dist, vgic, b)

\* C24: for two distinct vCPUs a and b, a write by a to any distributor
\* register other than SGIR, and any inject_irq(a, virq), leaves b's banked
\* words (enable_set0, enable_clr0, pending_set0, pending_clr0, active0,
\* active_clr0, irq_group0), b's sgi_ppi_irq slots, lr_shadow[b] and
\* irq_queue[b] unchanged.
BankIsolation ==
    /\ [](\A a \in Vcpus, o \in BankedWordOffsets, mask \in Masks :
              WordWriteIsolated(a, o, mask))
    /\ [][IsolatedStep]_vars

\* C24 witness: an inject_irq has loaded a list register of its vCPU while
\* another vCPU has nothing loaded and nothing pending
InjectedOnOneVcpu ==
    /\ obs.op = "inject"
    /\ obs.loads # <<>>
    /\ vgic.lr_shadow[obs.vcpu][0] # NULL
    /\ \E b \in Vcpus \ {obs.vcpu} :
           /\ \A i \in LrSlots : vgic.lr_shadow[b][i] = NULL
           /\ gic_dist.pending_set0[b] = {}


====
